---------------------------- MODULE Spec2Model ----------------------------
(***************************************************************************)
(* GazeboOnline: the command parser, the command executor, the zustand     *)
(* robot store and the rover physics / mapping functions.                  *)
(*                                                                         *)
(* Numbers.  The program computes with IEEE doubles; the model uses        *)
(* integers in fixed point:                                                *)
(*   time            milliseconds (Date.now())                             *)
(*   joint angles    degrees                                               *)
(*   velocities      1/1000 m/s and 1/1000 rad/s                           *)
(*   gripper effort  1/1000                                                *)
(*   lengths         millimetres (rover pose), quarter metres (LiDAR)      *)
(* Products are truncated towards zero after every multiplication.         *)
(***************************************************************************)
EXTENDS Integers, Sequences, FiniteSets, TLC

VARIABLES
  store,      \* the zustand state object of useRobotStore
  runs,       \* the handleRun invocations (async activations), by slot
  now,        \* Date.now()
  text,       \* the editor's content, a sequence of call tokens
  commands,   \* RobotCommandParser.commands of the last parse() call
  fused,      \* history: the updateOccupancyMap calls made
  ticks,      \* the physics ticks of the moving rover since the Executor last
              \* applied SetVelocity: their number, the sum of their deltaTime,
              \* the time of the last (history)
  cmdTime,    \* time at which the Executor last applied SetVelocity (history)
  sensor,     \* physics.js' lastDistanceUpdate, and the last call of
              \* updateDistanceSensor: its intersections, whether it passed
              \* the rate gate, and what it returned (history)
  kin         \* the last evaluation of the kinematics functions: the joint
              \* configuration, its pose, the inverse solution and its pose

vars == <<store, runs, now, text, commands, fused, ticks, cmdTime, sensor, kin>>

NULL == -1

(***************************************************************************)
(* Bounds of the model.                                                    *)
(***************************************************************************)
MaxLen == 3        \* tokens in a source text
MaxRuns == 2       \* Run clicks in one behaviour
MaxSteps == 14      \* clock steps in a behaviour of SpecSeq
ClickSteps == 8     \* the same, where Run and Reset are clicked at any moment
MaxFusions == 2    \* occupancy fusions in one behaviour
MaxTicks == 15     \* physics ticks counted after a SetVelocity

T0 == 1000         \* Date.now() when the page is loaded (any positive value)

(***************************************************************************)
(* Arithmetic helpers.                                                     *)
(***************************************************************************)
Abs(x) == IF x < 0 THEN -x ELSE x

Sign(x) == IF x < 0 THEN -1 ELSE IF x > 0 THEN 1 ELSE 0

\* Division truncating towards zero, as a double product rounded to the grid.
TruncDiv(a, b) == Sign(a) * (Abs(a) \div b)

Min(a, b) == IF a < b THEN a ELSE b

Max(a, b) == IF a > b THEN a ELSE b


(***************************************************************************)
(* Source text.  A text is a sequence of call tokens robot.<name>(<args>); *)
(* a token records the callee's name, its numeric argument literals and,   *)
(* for setLight, the characters of its argument token.  A token matches    *)
(* the regular expression of a command kind when name and argument list    *)
(* have that kind's shape.                                                 *)
(***************************************************************************)
Tok(name, args, sarg) == [name |-> name, args |-> args, sarg |-> sarg]

Cmd(type, robotType, args, color) ==
  [type |-> type, robotType |-> robotType, args |-> args, color |-> color]

DigitChars == {"0", "1", "2", "3", "4", "5", "6", "7", "8", "9"}

DigitVal(c) ==
  CASE c = "0" -> 0 [] c = "1" -> 1 [] c = "2" -> 2 [] c = "3" -> 3
    [] c = "4" -> 4 [] c = "5" -> 5 [] c = "6" -> 6 [] c = "7" -> 7
    [] c = "8" -> 8 [] c = "9" -> 9

HexChar(d) ==
  CASE d < 10 -> <<"0", "1", "2", "3", "4", "5", "6", "7", "8", "9">>[d + 1]
    [] d = 10 -> "a" [] d = 11 -> "b" [] d = 12 -> "c"
    [] d = 13 -> "d" [] d = 14 -> "e" [] d = 15 -> "f"

\* Number of leading decimal digits of s from position i on.
RECURSIVE DigitRun(_, _)
DigitRun(s, i) ==
  IF i <= Len(s) /\ s[i] \in DigitChars THEN 1 + DigitRun(s, i + 1) ELSE 0

\* Value of the decimal digits s[i .. i+n-1].
RECURSIVE DigitsValue(_, _, _)
DigitsValue(s, i, n) ==
  IF n = 0 THEN 0 ELSE DigitsValue(s, i, n - 1) * 10 + DigitVal(s[i + n - 1])

\* parseFloat followed by Math.floor, on the characters of a token:
\* [nan |-> TRUE] when the token has no leading number, else the floor.
\* An optional sign, digits, and an optional fraction are read.
parseFloatFloor(s) ==
  LET signed == Len(s) >= 1 /\ s[1] \in {"-", "+"}
      neg == Len(s) >= 1 /\ s[1] = "-"
      i == IF signed THEN 2 ELSE 1
      n == DigitRun(s, i)
      dot == i + n <= Len(s) /\ s[i + n] = "."
      m == IF dot THEN DigitRun(s, i + n + 1) ELSE 0
      ip == DigitsValue(s, i, n)
      fp == IF dot THEN DigitsValue(s, i + n + 1, m) ELSE 0
  IN  IF n = 0 /\ m = 0 THEN [nan |-> TRUE, floor |-> 0]
      ELSE [nan |-> FALSE,
            floor |-> IF neg THEN (IF fp > 0 THEN -ip - 1 ELSE -ip) ELSE ip]

\* Number.prototype.toString(16) of an integer.
RECURSIVE toString16(_)
toString16(n) ==
  IF n < 0 THEN <<"-">> \o toString16(-n)
  ELSE IF n < 16 THEN <<HexChar(n)>>
  ELSE toString16(n \div 16) \o <<HexChar(n % 16)>>

\* String.prototype.padStart(width, "0").
RECURSIVE padStart(_, _)
padStart(s, width) == IF Len(s) >= width THEN s ELSE padStart(<<"0">> \o s, width)

\* cppParser.js 101-117: the colour of a setLight match.
lightColor(sarg) ==
  LET num == parseFloatFloor(sarg)
  IN  IF ~num.nan THEN <<"#">> \o padStart(toString16(num.floor), 6) ELSE sarg

\* The matches of one regular expression, in text order, as commands.
matchMoveJoint(t) == t.name = "moveJoint" /\ Len(t.args) = 2 /\ t.args[1] >= 0

matchCloseGripper(t) == t.name = "closeGripper" /\ Len(t.args) <= 1

matchOpenGripper(t) == t.name = "openGripper" /\ Len(t.args) = 0

matchMoveToPose(t) == t.name = "moveToPose" /\ Len(t.args) = 3

matchMove(t) == t.name = "move" /\ Len(t.args) = 2

matchGetDistance(t) == t.name = "getDistance" /\ Len(t.args) = 0

matchSetLight(t) == t.name = "setLight" /\ Len(t.args) = 0 /\ Len(t.sarg) > 0

\* Mutant: no validation of the joint index.
validJointIndexAny(jointIndex) == TRUE

\* The joint-index validation of cppParser.js line 28.
validJointIndex(jointIndex) == jointIndex >= 0 /\ jointIndex <= 4

MapSeq(F(_), s) == [i \in 1..Len(s) |-> F(s[i])]

moveJointCmd(t) == Cmd("moveJoint", "arm", t.args, <<>>)

closeGripperCmd(t) == Cmd("closeGripper", "arm", t.args, <<>>)

openGripperCmd(t) == Cmd("openGripper", "arm", <<>>, <<>>)

moveToPoseCmd(t) == Cmd("moveToPose", "arm", t.args, <<>>)

moveCmd(t) == Cmd("move", "rover", t.args, <<>>)

getDistanceCmd(t) == Cmd("getDistance", "rover", <<>>, <<>>)

setLightCmd(t) == Cmd("setLight", "rover", <<>>, lightColor(t.sarg))

moveJointEmitted(t) == matchMoveJoint(t) /\ validJointIndex(t.args[1])

\* Lines 15-16.  In a text the tokens //, newline, /* and */ stand for the
\* comment delimiters and the line break.
\* code.replace(/\/\/.*$/gm, ''): from each // up to the end of its line.
RECURSIVE endOfLine(_, _)
endOfLine(code, i) ==
  IF i > Len(code) \/ code[i].name = "newline" THEN i ELSE endOfLine(code, i + 1)

RECURSIVE stripLineComments(_, _)
stripLineComments(code, i) ==
  IF i > Len(code) THEN <<>>
  ELSE IF code[i].name = "//" THEN stripLineComments(code, endOfLine(code, i))
  ELSE <<code[i]>> \o stripLineComments(code, i + 1)

\* code.replace(/\/\*[\s\S]*?\*\//g, ''): from each /* through the next */;
\* a /* without a */ after it stays.  closing is 0 when there is none.
RECURSIVE closing(_, _)
closing(code, i) ==
  IF i > Len(code) THEN 0
  ELSE IF code[i].name = "*/" THEN i ELSE closing(code, i + 1)

RECURSIVE stripBlockComments(_, _)
stripBlockComments(code, i) ==
  IF i > Len(code) THEN <<>>
  ELSE IF code[i].name = "/*" /\ closing(code, i + 1) # 0
  THEN stripBlockComments(code, closing(code, i + 1) + 1)
  ELSE <<code[i]>> \o stripBlockComments(code, i + 1)

stripComments(code) == stripBlockComments(stripLineComments(code, 1), 1)

\* The matches taken kind by kind from a text without comments.
scanKinds(code) ==
     MapSeq(moveJointCmd, SelectSeq(code, moveJointEmitted))
  \o MapSeq(closeGripperCmd, SelectSeq(code, matchCloseGripper))
  \o MapSeq(openGripperCmd, SelectSeq(code, matchOpenGripper))
  \o MapSeq(moveToPoseCmd, SelectSeq(code, matchMoveToPose))
  \o MapSeq(moveCmd, SelectSeq(code, matchMove))
  \o MapSeq(getDistanceCmd, SelectSeq(code, matchGetDistance))
  \o MapSeq(setLightCmd, SelectSeq(code, matchSetLight))

\* The commands a text's recognised calls denote, in source order.
recognised(t) ==
  \/ moveJointEmitted(t) \/ matchCloseGripper(t) \/ matchOpenGripper(t)
  \/ matchMoveToPose(t) \/ matchMove(t) \/ matchGetDistance(t) \/ matchSetLight(t)

commandOf(t) ==
  CASE t.name = "moveJoint" -> moveJointCmd(t)
    [] t.name = "closeGripper" -> closeGripperCmd(t)
    [] t.name = "openGripper" -> openGripperCmd(t)
    [] t.name = "moveToPose" -> moveToPoseCmd(t)
    [] t.name = "move" -> moveCmd(t)
    [] t.name = "getDistance" -> getDistanceCmd(t)
    [] t.name = "setLight" -> setLightCmd(t)

SourceCommands(code) == MapSeq(commandOf, SelectSeq(code, recognised))

\* Mutant: the commands in the order of their calls in the text.
parseInSourceOrder(code) == SourceCommands(stripComments(code))

\* RobotCommandParser.parse: the comments are removed, then seven scans of the
\* whole text, one per kind, each pushing its matches; the result is their
\* concatenation.
parse(code) == scanKinds(stripComments(code))


(***************************************************************************)
(* The zustand store (robotStore.js).  Every store operation is a function *)
(* from the state object to the next state object.                         *)
(***************************************************************************)
\* occupancyMap: null, the store without a map.
NoMap == <<>>

\* The null of trajectoryPath; the array moveToPose stores is never empty.
NoPath == <<>>

Zero5 == <<0, 0, 0, 0, 0>>

InitialStore ==
  [robotType |-> "arm",
   jointAngles |-> Zero5,
   jointVelocities |-> Zero5,
   jointEfforts |-> Zero5,
   gripperState |-> 0,
   gripperEffort |-> 0,
   gripperMaxEffort |-> 800,
   trajectoryPath |-> NoPath,
   animationQueue |-> <<>>,
   isAnimating |-> FALSE,
   position |-> <<0, 100, 0>>,
   rotation |-> 0,
   velocity |-> [vx |-> 0, wz |-> 0],
   ledColor |-> <<"#", "0", "0", "f", "f", "0", "0">>,
   lastCommandTime |-> NULL,
   distance |-> 5000,
   velocityHistory |-> <<>>,
   occupancyMap |-> NoMap]

setRobotType(s, type) == [s EXCEPT !.robotType = type]

setGripperState(s, state) == [s EXCEPT !.gripperState = state]

setGripperWithEffort(s, targetState, maxEffort) ==
  [s EXCEPT !.gripperState = targetState,
            !.gripperMaxEffort = maxEffort,
            !.gripperEffort = 0]

setVelocity(s, vx, wz, t) ==
  [s EXCEPT !.velocity = [vx |-> vx, wz |-> wz], !.lastCommandTime = t]

setPosition(s, x, y, z) == [s EXCEPT !.position = <<x, y, z>>]

setRotation(s, y) == [s EXCEPT !.rotation = y]

setLedColor(s, color) == [s EXCEPT !.ledColor = color]

getDistance(s) == s.distance

setDistance(s, distance) == [s EXCEPT !.distance = distance]

storeUpdateOccupancyMap(s, mapData) == [s EXCEPT !.occupancyMap = mapData]

reset(s) ==
  IF s.robotType = "arm"
  THEN [s EXCEPT !.jointAngles = Zero5,
                 !.jointVelocities = Zero5,
                 !.jointEfforts = Zero5,
                 !.gripperState = 0,
                 !.gripperEffort = 0,
                 !.trajectoryPath = NoPath,
                 !.animationQueue = <<>>,
                 !.isAnimating = FALSE]
  ELSE [s EXCEPT !.position = <<0, 100, 0>>,
                 !.rotation = 0,
                 !.velocity = [vx |-> 0, wz |-> 0],
                 !.ledColor = <<"#", "0", "0", "f", "f", "0", "0">>,
                 !.lastCommandTime = NULL,
                 !.distance = 5000,
                 !.velocityHistory = <<>>,
                 !.occupancyMap = NoMap]

(***************************************************************************)
(* animateJoint (robotStore.js 61-130).                                    *)
(***************************************************************************)
JointDuration == 1000

\* effortWeights of line 87, times ten.
effortWeights == <<5, 10, 8, 6, 3>>

\* start + (target - start) * eased, with progress = min(elapsed / duration, 1)
\* and eased = 2 p^2 below one half, 1 - (-2p + 2)^2 / 2 from there on.
easedAngle(startAngle, targetAngle, elapsed, duration) ==
  LET e == Min(elapsed, duration)
      diff == targetAngle - startAngle
  IN  IF 2 * e < duration
      THEN startAngle + TruncDiv(diff * 2 * e * e, duration * duration)
      ELSE startAngle + diff
             - TruncDiv(diff * 2 * (duration - e) * (duration - e), duration * duration)

\* Mutant: the animation stops at half of its duration.
animationStopsEarly(elapsed, duration) == 2 * elapsed < duration

\* Lines 109-125: the animation goes on while progress < 1.
animationGoesOn(elapsed, duration) == elapsed < duration

\* The call itself: lines 62-68 and the first requestAnimationFrame.
animateJointStart(s, jointIndex, targetAngle, t) ==
  [s |-> [s EXCEPT !.isAnimating = TRUE],
   anim |-> [jointIndex |-> jointIndex,
             targetAngle |-> targetAngle,
             startAngle |-> s.jointAngles[jointIndex + 1],
             startTime |-> t,
             lastAngle |-> s.jointAngles[jointIndex + 1],
             lastTime |-> t]]

\* One run of the animate callback at time t: lines 70-126.
animateFrame(s, a, t) ==
  LET elapsed == t - a.startTime
      j == a.jointIndex + 1
      currentAngle == easedAngle(a.startAngle, a.targetAngle, elapsed, JointDuration)
      deltaTime == t - a.lastTime
      velocity == IF deltaTime > 0
                  THEN TruncDiv((currentAngle - a.lastAngle) * 1000, deltaTime)
                  ELSE 0
      effort == Abs(velocity) * effortWeights[j]
      moved == [s EXCEPT !.jointAngles[j] = currentAngle,
                         !.jointVelocities[j] = velocity,
                         !.jointEfforts[j] = effort]
      goesOn == animationGoesOn(elapsed, JointDuration)
  IN  [s |-> IF goesOn THEN moved
             ELSE [moved EXCEPT !.jointVelocities[j] = 0,
                                !.jointEfforts[j] = 0,
                                !.isAnimating = FALSE],
       anim |-> [a EXCEPT !.lastAngle = currentAngle, !.lastTime = t],
       resolved |-> ~goesOn]


(***************************************************************************)
(* updateRoverPhysics (physics.js 23-64).                                  *)
(***************************************************************************)
WATCHDOG_TIMEOUT == 500

\* 1000 sin(x / 1000) for 0 <= x <= 1571, by the series up to x^7.
sinFirstQuadrant(x) ==
  LET x2 == (x * x) \div 1000
      x3 == (x2 * x) \div 1000
      x5 == (((x3 * x) \div 1000) * x) \div 1000
      x7 == (((x5 * x) \div 1000) * x) \div 1000
  IN  Min(1000, x - (x3 \div 6) + (x5 \div 120) - (x7 \div 5040))

\* Math.sin and Math.cos of an angle in 1/1000 rad, in 1/1000.
sinMilli(a) ==
  LET x == a % 6283
  IN  IF x <= 1571 THEN sinFirstQuadrant(x)
      ELSE IF x <= 3142 THEN sinFirstQuadrant(3142 - x)
      ELSE IF x <= 4712 THEN -sinFirstQuadrant(x - 3142)
      ELSE -sinFirstQuadrant(6283 - x)

cosMilli(a) == sinMilli(a + 1571)

\* Mutant: no friction.
decayNone(v, n) == v

\* v * Math.pow(FRICTION_COEFFICIENT, n), FRICTION_COEFFICIENT = 0.95; the
\* product is rounded to the grid factor by factor, and 0 stays 0.
RECURSIVE decay(_, _)
decay(v, n) ==
  IF n = 0 \/ v = 0 THEN v ELSE decay(TruncDiv(v * 95, 100), n - 1)

\* deltaTime * 60, the exponent of line 41, for deltaTime in milliseconds.
frictionExponent(deltaTime) == (deltaTime * 3) \div 50

\* Lines 45-46: a component below 0.01 becomes 0.
snap(v) == IF Abs(v) < 10 THEN 0 ELSE v

\* Line 33: the watchdog's test.
watchdogExpired(lastCommandTime, t) ==
  lastCommandTime # NULL /\ lastCommandTime # 0
    /\ (t - lastCommandTime) > WATCHDOG_TIMEOUT

\* Lines 39-49: the friction step on the store.
applyFriction(s, vx, wz, t) == setVelocity(s, vx, wz, t)

\* Mutant: the friction step writes the velocity also when it is (0,0).
inMotionAlways(vx, wz) == TRUE

\* Line 40: the friction step's test.
inMotion(vx, wz) == vx # 0 \/ wz # 0

updateRoverPhysics(s, deltaTime, t) ==
  IF s.robotType # "rover" THEN s
  ELSE
    LET rotation == s.rotation
        position == s.position
        expired == watchdogExpired(s.lastCommandTime, t)
        vx1 == IF expired THEN 0 ELSE s.velocity.vx
        wz1 == IF expired THEN 0 ELSE s.velocity.wz
        s1 == IF expired THEN setVelocity(s, 0, 0, t) ELSE s
        moving == inMotion(vx1, wz1)
        vx == IF moving THEN snap(decay(vx1, frictionExponent(deltaTime))) ELSE vx1
        wz == IF moving THEN snap(decay(wz1, frictionExponent(deltaTime))) ELSE wz1
        s2 == IF moving THEN applyFriction(s1, vx, wz, t) ELSE s1
        s3 == IF wz # 0
              THEN setRotation(s2, rotation + TruncDiv(wz * deltaTime, 1000))
              ELSE s2
    IN  IF vx # 0
        THEN setPosition(s3,
               position[1]
                 + TruncDiv(TruncDiv(vx * sinMilli(rotation), 1000) * deltaTime, 1000),
               position[2],
               position[3]
                 + TruncDiv(TruncDiv(vx * cosMilli(rotation), 1000) * deltaTime, 1000))
        ELSE s3

(***************************************************************************)
(* updateOccupancyMap (physics.js 177-223).  Lengths are in millimetres,   *)
(* angles in 1/1000 rad; a map is the sequence of its cells, row by row,   *)
(* 0 = unknown, 1 = free, 2 = occupied.                                    *)
(***************************************************************************)
DISTANCE_SENSOR_RANGE == 5000

\* Mutant: free marking overwrites whatever the cell holds.
freeMarkOverwrites(cell) == 1

\* Line 210: if (map[idx] !== 2) map[idx] = 1.
freeMark(cell) == IF cell # 2 THEN 1 ELSE cell

\* Lines 205-207: the cell of the ray's point `step` cells from the robot, as
\* [x, z]; the cell size is 1000 / resolution.
stepCell(ray, robotX, robotZ, gridSize, resolution, step) ==
  [x |-> (gridSize * 500 + robotX * resolution + sinMilli(ray.angle) * step)
           \div 1000,
   z |-> (gridSize * 500 + robotZ * resolution + cosMilli(ray.angle) * step)
           \div 1000]

\* Lines 193-199: the cell of the ray's end point.
obstacleCell(ray, robotX, robotZ, gridSize, resolution) ==
  [x |-> (gridSize * 500000 + robotX * resolution * 1000
            + sinMilli(ray.angle) * ray.distance * resolution) \div 1000000,
   z |-> (gridSize * 500000 + robotZ * resolution * 1000
            + cosMilli(ray.angle) * ray.distance * resolution) \div 1000000]

inGrid(c, gridSize) == c.x >= 0 /\ c.x < gridSize /\ c.z >= 0 /\ c.z < gridSize

\* The index of a cell in the map (the sequence counts from 1).
cellIndex(c, gridSize) == c.z * gridSize + c.x + 1

\* Lines 202-212: the indices the free-marking loop of one ray visits.
freeCells(ray, robotX, robotZ, gridSize, resolution) ==
  LET steps == (ray.distance * resolution) \div 1000
  IN  {cellIndex(stepCell(ray, robotX, robotZ, gridSize, resolution, step), gridSize) :
         step \in {k \in 0..(steps - 1) :
                     inGrid(stepCell(ray, robotX, robotZ, gridSize, resolution, k),
                            gridSize)}}

\* Mutant: a ray of any length ends at an obstacle.
realObstacleAlways(distance) == TRUE

\* Line 217: distance < DISTANCE_SENSOR_RANGE * 0.95.
realObstacle(distance) == distance * 100 < DISTANCE_SENSOR_RANGE * 95

\* Lines 191-219: the body of the forEach for one ray.
fuseRay(map, ray, robotX, robotZ, gridSize, resolution) ==
  LET free == freeCells(ray, robotX, robotZ, gridSize, resolution)
      marked == [i \in 1..Len(map) |-> IF i \in free THEN freeMark(map[i]) ELSE map[i]]
      hit == obstacleCell(ray, robotX, robotZ, gridSize, resolution)
  IN  IF inGrid(hit, gridSize) /\ realObstacle(ray.distance)
      THEN [marked EXCEPT ![cellIndex(hit, gridSize)] = 2]
      ELSE marked

\* lidarScan.forEach from ray i on.
RECURSIVE fuseScan(_, _, _, _, _, _, _)
fuseScan(map, lidarScan, i, robotX, robotZ, gridSize, resolution) ==
  IF i > Len(lidarScan) THEN map
  ELSE fuseScan(fuseRay(map, lidarScan[i], robotX, robotZ, gridSize, resolution),
                lidarScan, i + 1, robotX, robotZ, gridSize, resolution)

\* Lines 181-185: the store's map, or a new map of unknown cells.
mapOrNew(map, gridSize) ==
  IF map = NoMap \/ Len(map) # gridSize * gridSize
  THEN [i \in 1..(gridSize * gridSize) |-> 0]
  ELSE map

updateOccupancyMap(s, lidarScan, robotPosition, mapSize, resolution) ==
  LET gridSize == mapSize * resolution
      map == mapOrNew(s.occupancyMap, gridSize)
  IN  storeUpdateOccupancyMap(s,
        fuseScan(map, lidarScan, 1, robotPosition[1], robotPosition[3],
                 gridSize, resolution))

(***************************************************************************)
(* updateDistanceSensor (physics.js 74-120).  The raycaster's result is    *)
(* the sequence of its intersections, nearest first; an intersection is    *)
(* the distance (in millimetres) and those of the words robot, helper,     *)
(* grid, lidar that the name of the object hit contains.                   *)
(***************************************************************************)
DISTANCE_SENSOR_UPDATE_RATE == 10

\* Lines 106-112: the object is neither the robot nor a helper.
validIntersect(hit) == hit.name \cap {"robot", "helper", "grid", "lidar"} = {}

\* Mutant: the reading is not clamped to the sensor's range.
clampToRangeNot(distance) == distance

\* Line 115: Math.min(distance, DISTANCE_SENSOR_RANGE).
clampToRange(distance) == Min(distance, DISTANCE_SENSOR_RANGE)

\* Lines 103-116: the reading of one raycast.
sensorReading(intersects) ==
  LET validIntersects == SelectSeq(intersects, validIntersect)
  IN  IF Len(validIntersects) > 0
      THEN clampToRange(validIntersects[1].distance)
      ELSE DISTANCE_SENSOR_RANGE

\* Mutant: no rate gate.
sensorGatedNever(lastDistanceUpdate, t) == FALSE

\* Lines 75-83: the rate gate.
sensorGated(lastDistanceUpdate, t) ==
  t - lastDistanceUpdate < 1000 \div DISTANCE_SENSOR_UPDATE_RATE

\* The whole call: the store, lastDistanceUpdate and the value returned.
updateDistanceSensor(s, lastDistanceUpdate, intersects, t) ==
  IF sensorGated(lastDistanceUpdate, t)
  THEN [s |-> s, lastDistanceUpdate |-> lastDistanceUpdate, returned |-> s.distance]
  ELSE [s |-> setDistance(s, sensorReading(intersects)),
        lastDistanceUpdate |-> t,
        returned |-> sensorReading(intersects)]

(***************************************************************************)
(* The kinematics functions (src/unnamed/part_009).  Lengths are in mm,    *)
(* angles of a joint configuration in 1/100 degree, angles inside the      *)
(* functions in 1/1000 rad, cosines in 1/1000.                             *)
(***************************************************************************)
L0 == 300
L1 == 800
L2 == 700
L3 == 300
L4 == 150

\* The NaN of the floating-point arithmetic.
NaN == -999999999

isNaN(v) == v = NaN

\* THREE.MathUtils.degToRad and radToDeg.
degToRad(deg) == IF isNaN(deg) THEN NaN ELSE TruncDiv(deg * 1745, 10000)

radToDeg(rad) == IF isNaN(rad) THEN NaN ELSE TruncDiv(rad * 57296, 10000)

\* radToDeg applied to a number of degrees, as line 90 does: the number of
\* 1/100 degree is taken as a number of 1/100 rad.
radToDegOfDegrees(deg) == IF isNaN(deg) THEN NaN ELSE TruncDiv(deg * 573, 10)

\* Math.sqrt of a non-negative integer, rounded down.
sqrtFloor(n) == CHOOSE r \in 0..5000 : r * r <= n /\ n < (r + 1) * (r + 1)

\* Math.acos of c / 1000: NaN outside [-1, 1], otherwise the angle in
\* [0, 3142] found by bisection on the cosine.
RECURSIVE acosBetween(_, _, _)
acosBetween(c, lo, hi) ==
  IF hi - lo <= 1
  THEN IF Abs(cosMilli(lo) - c) <= Abs(cosMilli(hi) - c) THEN lo ELSE hi
  ELSE LET mid == (lo + hi) \div 2
       IN  IF cosMilli(mid) > c THEN acosBetween(c, mid, hi)
           ELSE acosBetween(c, lo, mid)

acosMilli(c) ==
  IF isNaN(c) \/ c < -1000 \/ c > 1000 THEN NaN ELSE acosBetween(c, 0, 3142)

\* Math.asin of v / 1000, for v in [-1000, 1000].
asinMilli(v) == 1571 - acosMilli(Max(-1000, Min(1000, v)))

\* Math.atan2(y, x) for a point at distance r > 0 from the origin, from the
\* better conditioned of asin(y / r) and acos(x / r).
atan2At(y, x, r) ==
  IF Abs(y) <= Abs(x)
  THEN IF x > 0 THEN asinMilli(TruncDiv(1000 * y, r))
       ELSE IF y >= 0 THEN 3142 - asinMilli(TruncDiv(1000 * y, r))
       ELSE -3142 - asinMilli(TruncDiv(1000 * y, r))
  ELSE IF y > 0 THEN acosMilli(Max(-1000, Min(1000, TruncDiv(1000 * x, r))))
       ELSE -acosMilli(Max(-1000, Min(1000, TruncDiv(1000 * x, r))))

\* Math.atan2(y, x).
atan2Milli(y, x) ==
  IF x = 0 /\ y = 0 THEN 0 ELSE atan2At(y, x, Max(1, sqrtFloor(x * x + y * y)))

\* THREE.MathUtils.clamp: Math.max(min, Math.min(max, value)).
clamp(value, min, max) == IF isNaN(value) THEN NaN ELSE Max(min, Min(max, value))

Vector3(x, y, z) == [x |-> x, y |-> y, z |-> z]

\* Vector3.distanceTo.
distanceTo(p, q) ==
  IF \E c \in {p.x, p.y, p.z, q.x, q.y, q.z} : isNaN(c) THEN NaN
  ELSE sqrtFloor((p.x - q.x) * (p.x - q.x) + (p.y - q.y) * (p.y - q.y)
                   + (p.z - q.z) * (p.z - q.z))

\* Lines 28-51: the end effector in the plane of the arm, as <<y4, z4>>, from
\* the angles shoulder, shoulder + elbow and shoulder + elbow + wrist.  The
\* products of a length and a cosine are in 1/1000 mm.
endEffectorInPlane(shoulder, se, sew) ==
  LET y0 == TruncDiv(L0 * 1000, 2)
      y1 == y0 + TruncDiv(L1 * cosMilli(shoulder), 2)
      z1 == TruncDiv(L1 * sinMilli(shoulder), 2)
      y2 == y1 + TruncDiv(L1 * cosMilli(shoulder), 2) + TruncDiv(L2 * cosMilli(se), 2)
      z2 == z1 + TruncDiv(L1 * sinMilli(shoulder), 2) + TruncDiv(L2 * sinMilli(se), 2)
      y3 == y2 + TruncDiv(L2 * cosMilli(se), 2) + TruncDiv(L3 * cosMilli(sew), 2)
      z3 == z2 + TruncDiv(L2 * sinMilli(se), 2) + TruncDiv(L3 * sinMilli(sew), 2)
  IN  <<TruncDiv(y3 + TruncDiv(L3 * cosMilli(sew), 2) + L4 * cosMilli(sew), 1000),
        TruncDiv(z3 + TruncDiv(L3 * sinMilli(sew), 2) + L4 * sinMilli(sew), 1000)>>

\* Lines 53-58: the base rotation applied to the point (0, y4, z4).
applyBaseRotation(baseRot, p) ==
  Vector3(TruncDiv(-(p[2] * sinMilli(baseRot)), 1000),
          p[1],
          TruncDiv(p[2] * cosMilli(baseRot), 1000))

\* The same for angles in 1/1000 rad, of which some may be NaN.
forwardKinematicsOf(angles) ==
  IF isNaN(angles[2]) \/ isNaN(angles[3]) \/ isNaN(angles[4])
  THEN Vector3(NaN, NaN, NaN)
  ELSE IF isNaN(angles[1])
  THEN Vector3(NaN, endEffectorInPlane(angles[2], angles[2] + angles[3],
                                       angles[2] + angles[3] + angles[4])[1], NaN)
  ELSE applyBaseRotation(angles[1],
         endEffectorInPlane(angles[2], angles[2] + angles[3],
                            angles[2] + angles[3] + angles[4]))

\* forwardKinematics(jointAngles) (lines 7-59).
forwardKinematics(jointAngles) ==
  forwardKinematicsOf([j \in 1..5 |-> degToRad(jointAngles[j])])

\* Vector3.multiplyScalar(totalReach / distance).
scaleBy(targetPos, totalReach, distance) ==
  Vector3(TruncDiv(targetPos.x * totalReach, distance),
          TruncDiv(targetPos.y * totalReach, distance),
          TruncDiv(targetPos.z * totalReach, distance))

\* Lines 72-80: a target farther than the total reach is scaled onto it.
scaleToReach(targetPos) ==
  IF distanceTo(targetPos, Vector3(0, 0, 0)) > L1 + L2 + L3 + L4
  THEN scaleBy(targetPos, L1 + L2 + L3 + L4, distanceTo(targetPos, Vector3(0, 0, 0)))
  ELSE targetPos

\* Lines 116-117: the elbow angle by the cosine law, its cosine clamped.
elbowAngleOf(targetDist2D) ==
  acosMilli(Max(-1000, Min(1000,
    TruncDiv(L1 * L1 + L2 * L2 - targetDist2D * targetDist2D,
             (2 * L1 * L2) \div 1000))))

\* Line 121: beta, whose cosine is not clamped.
betaOf(targetDist2D) ==
  IF targetDist2D = 0 THEN NaN
  ELSE acosMilli(TruncDiv((L1 * L1 + targetDist2D * targetDist2D - L2 * L2) * 10,
                          Abs((2 * L1 * targetDist2D) \div 100))
                   * Sign(targetDist2D))

\* Lines 122-133: the angles from baseRot, alpha, beta and elbowAngle.
anglesFrom(baseRot, alpha, beta, elbowAngle, gripperRot) ==
  IF isNaN(beta) THEN <<baseRot, NaN, elbowAngle, NaN, gripperRot>>
  ELSE <<baseRot, alpha - beta, elbowAngle, -(alpha - beta) - elbowAngle, gripperRot>>

\* Lines 112-133, for the target (targetY, targetZ) in the plane of the arm.
solveInPlane(baseRot, targetY, targetZ, targetDist2D, gripperRot) ==
  anglesFrom(baseRot, atan2Milli(targetZ, targetY), betaOf(targetDist2D),
             elbowAngleOf(targetDist2D), gripperRot)

\* Lines 106-114: the target projected into the plane of the arm.
solveForBase(baseRot, targetY, targetZ, gripperRot) ==
  solveInPlane(baseRot, targetY, targetZ,
               sqrtFloor(targetY * targetY + targetZ * targetZ) - L4, gripperRot)

\* One pass of the loop body after the convergence test (lines 98-138), in
\* 1/1000 rad, for the base angle baseRot of line 102.
solveWithBase(targetPos, baseRot, gripperRot) ==
  solveForBase(baseRot,
               targetPos.y - TruncDiv(L0, 2),
               TruncDiv(targetPos.x * sinMilli(-baseRot)
                          + targetPos.z * cosMilli(-baseRot), 1000),
               gripperRot)

\* The pass reads currentAngles for the gripper rotation only.
solveAngles(targetPos, currentAngles) ==
  solveWithBase(targetPos, atan2Milli(targetPos.x, targetPos.z),
                IF currentAngles[5] # 0 /\ ~isNaN(currentAngles[5])
                THEN degToRad(currentAngles[5]) ELSE 0)

tolerance == 10

\* Lines 88-96 in the first pass: the convergence test, on the pose of
\* currentAngles converted once more by radToDeg.
convergedAtOnce(target, currentPos) ==
  ~isNaN(distanceTo(currentPos, target)) /\ distanceTo(currentPos, target) < tolerance

\* Lines 141-152: the angles converted to degrees and clamped.
clampAngles(angles) ==
  <<clamp(radToDeg(angles[1]), -18000, 18000),
    clamp(radToDeg(angles[2]), -9000, 9000),
    clamp(radToDeg(angles[3]), -15000, 15000),
    clamp(radToDeg(angles[4]), -9000, 9000),
    clamp(radToDeg(angles[5]), -18000, 18000)>>

\* The loop for a target inside the reach.
solveLoop(target, currentAngles) ==
  IF convergedAtOnce(target,
       forwardKinematics([j \in 1..5 |-> radToDegOfDegrees(currentAngles[j])]))
  THEN [j \in 1..5 |-> degToRad(currentAngles[j])]
  ELSE solveAngles(target, currentAngles)

\* inverseKinematics(targetPos, currentAngles) with the default maxIterations
\* and tolerance (lines 65-155).  Every pass of the loop that gets beyond the
\* convergence test assigns the same angles, which depend on targetPos and on
\* the gripper rotation only, and the gripper rotation is its own image; so
\* the loop returns the angles of one pass, or the converted currentAngles
\* when the first convergence test breaks out of it.
inverseKinematics(targetPos, currentAngles) ==
  clampAngles(solveLoop(scaleToReach(targetPos), currentAngles))

(***************************************************************************)
(* moveToPose (robotStore.js 133-214).  The stored joint angles are whole  *)
(* degrees; the kinematics functions take and return 1/100 degree, and a   *)
(* result of inverseKinematics is stored rounded to the degree.  A target  *)
(* position is in mm.                                                      *)
(***************************************************************************)
PoseDuration == 2000

numSteps == 20

ClearDelay == 500

\* A stored angle as an argument of the kinematics functions.
toCenti(a) == IF isNaN(a) THEN NaN ELSE 100 * a

\* An angle of the kinematics functions as a stored angle.
toDegree(c) == IF isNaN(c) THEN NaN ELSE Sign(c) * ((Abs(c) + 50) \div 100)

\* start + (target - start) * eased, which is NaN when start or target is.
easedBetween(start, target, elapsed, duration) ==
  IF isNaN(start) \/ isNaN(target) THEN NaN
  ELSE easedAngle(start, target, elapsed, duration)

\* generateTrajectory (part_009 161-178): its point number i, from 0 on.
trajectoryPoint(currentAngles, targetAngles, i) ==
  [j \in 1..5 |-> easedBetween(currentAngles[j], targetAngles[j], i, numSteps)]

\* Line 143: the end-effector positions of the trajectory's points.
pathPoints(currentAngles, targetAngles) ==
  [i \in 1..(numSteps + 1) |->
     forwardKinematics([j \in 1..5 |->
       toCenti(trajectoryPoint(currentAngles, targetAngles, i - 1)[j])])]

\* The result of inverseKinematics as stored angles.
storedAngles(a) ==
  <<toDegree(a[1]), toDegree(a[2]), toDegree(a[3]), toDegree(a[4]), toDegree(a[5])>>

\* Line 139: the target angles of the pose (x, y, z).
targetAnglesOf(x, y, z, currentAngles) ==
  storedAngles(inverseKinematics(Vector3(x, y, z),
                 <<toCenti(currentAngles[1]), toCenti(currentAngles[2]),
                   toCenti(currentAngles[3]), toCenti(currentAngles[4]),
                   toCenti(currentAngles[5])>>))

NoPose ==
  [from |-> <<0, 0, 0, 0, 0>>, target |-> <<0, 0, 0, 0, 0>>, step |-> 0,
   startAngles |-> <<0, 0, 0, 0, 0>>, startTime |-> 0,
   lastAngles |-> <<0, 0, 0, 0, 0>>, lastTime |-> 0]

\* Lines 154-158 and 206: the promise of one step begins.
stepStart(p, step, startAngles, t) ==
  [p EXCEPT !.step = step, !.startAngles = startAngles, !.startTime = t,
            !.lastAngles = startAngles, !.lastTime = t]

\* Lines 141-158 for the target angles of line 139, up to the first
\* requestAnimationFrame.
moveToPoseWith(s, targetAngles, t) ==
  [s |-> [s EXCEPT !.trajectoryPath = pathPoints(s.jointAngles, targetAngles),
                   !.isAnimating = TRUE],
   pose |-> stepStart([NoPose EXCEPT !.from = s.jointAngles,
                                     !.target = targetAngles],
                      0, s.jointAngles, t)]

\* The call itself, up to the first requestAnimationFrame.
moveToPoseStart(s, x, y, z, t) ==
  moveToPoseWith(s, targetAnglesOf(x, y, z, s.jointAngles), t)

\* Mutant: a step of the pose animation never ends.
poseStepGoesOnForever(elapsed, duration, steps) == TRUE

\* Lines 151, 162 and 199: progress = min(elapsed / (duration / length), 1),
\* and the step goes on while progress < 1.
poseStepGoesOn(elapsed, duration, steps) == elapsed * steps < duration

\* Lines 178-183: the velocity of one joint.
poseVelocity(angle, lastAngle, deltaTime, stored) ==
  IF deltaTime > 0
  THEN IF isNaN(angle) \/ isNaN(lastAngle) THEN NaN
       ELSE TruncDiv((angle - lastAngle) * 1000, deltaTime)
  ELSE stored

\* Lines 185-187: the effort of one joint.
poseEffort(vel, j) == IF isNaN(vel) THEN NaN ELSE Abs(vel) * effortWeights[j]

\* Lines 168-194 for the angles of the frame.
poseWrite(s, currentAngles, lastAngles, deltaTime) ==
  [s EXCEPT !.jointAngles = currentAngles,
            !.jointVelocities =
               [j \in 1..5 |-> poseVelocity(currentAngles[j], lastAngles[j],
                                            deltaTime, s.jointVelocities[j])],
            !.jointEfforts =
               [j \in 1..5 |->
                  poseEffort(poseVelocity(currentAngles[j], lastAngles[j],
                                          deltaTime, s.jointVelocities[j]), j)]]

\* Lines 161-170: the angles of the frame at time t.
poseAngles(p, t) ==
  [j \in 1..5 |->
     easedBetween(p.startAngles[j], trajectoryPoint(p.from, p.target, p.step)[j],
                  (t - p.startTime) * (numSteps + 1), PoseDuration)]

\* One run of the animate callback of a step at time t: lines 160-204.
poseFrame(s, p, t) ==
  [s |-> poseWrite(s, poseAngles(p, t), p.lastAngles, t - p.lastTime),
   pose |-> [p EXCEPT !.lastAngles = poseAngles(p, t), !.lastTime = t],
   resolved |-> ~poseStepGoesOn(t - p.startTime, PoseDuration, numSteps + 1)]

\* Lines 211-213: the callback of the delayed clear.
clearTrajectory(s) == [s EXCEPT !.trajectoryPath = NoPath, !.isAnimating = FALSE]

(***************************************************************************)
(* executeCommands (cppParser.js 130-198) and handleRun (Editor.jsx 43-61).*)
(* An activation of handleRun is a record: where it is suspended, the      *)
(* commands it holds, and the closure of a pending animation.  The fields  *)
(* applied, skipped, didReset, start, doneAt, superseded are history: they *)
(* record what the activation did and are read by no operation.            *)
(***************************************************************************)
SettleDelay == 500

GripperDelay == 300

MoveDelay == 50

SensorDelay == 100

NoAnim ==
  [jointIndex |-> 0, targetAngle |-> 0, startAngle |-> 0, startTime |-> 0,
   lastAngle |-> 0, lastTime |-> 0]

IdleRun ==
  [phase |-> "idle", cmds |-> <<>>, pc |-> 0, rtype |-> "none",
   wait |-> "none", due |-> 0, anim |-> NoAnim, pose |-> NoPose,
   clears |-> {}, poses |-> <<>>,
   applied |-> <<>>, skipped |-> <<>>, didReset |-> FALSE, start |-> 0,
   doneAt |-> NULL, superseded |-> FALSE]

\* Mutant: the loop skips nothing.
mismatchNever(command, currentRobotType) == FALSE

\* Lines 144-146: the test that makes the loop skip a command.
mismatch(command, currentRobotType) == command.robotType # currentRobotType

\* Mutant: the timeout is set without its delay.
awaitTimeoutNoDelay(run, delay, t) == [run EXCEPT !.wait = "timer", !.due = t]

\* The run suspended on setTimeout(resolve, delay).
awaitTimeout(run, delay, t) == [run EXCEPT !.wait = "timer", !.due = t + delay]

\* Lines 149-196: the branch of one command, up to its await.
applyCommand(s, run, i, t) ==
  LET command == run.cmds[i]
      at == [run EXCEPT !.pc = i,
                        !.applied = Append(@, [idx |-> i, at |-> t])]
  IN  CASE command.type = "moveJoint" ->
             LET st == animateJointStart(s, command.args[1], command.args[2], t)
             IN  [s |-> st.s, run |-> [at EXCEPT !.wait = "frame", !.anim = st.anim]]
        [] command.type = "moveToPose" ->
             LET st == moveToPoseStart(s, command.args[1], command.args[2],
                                       command.args[3], t)
             IN  [s |-> st.s, run |-> [at EXCEPT !.wait = "pose", !.pose = st.pose]]
        [] command.type = "closeGripper" ->
             [s |-> IF Len(command.args) > 0
                    THEN setGripperWithEffort(s, 0, command.args[1])
                    ELSE setGripperState(s, 0),
              run |-> awaitTimeout(at, GripperDelay, t)]
        [] command.type = "openGripper" ->
             [s |-> setGripperState(s, 1), run |-> awaitTimeout(at, GripperDelay, t)]
        [] command.type = "move" ->
             [s |-> setVelocity(s, command.args[1], command.args[2], t),
              run |-> awaitTimeout(at, MoveDelay, t)]
        [] command.type = "getDistance" ->
             [s |-> s, run |-> awaitTimeout(at, SensorDelay, t)]
        [] command.type = "setLight" ->
             [s |-> setLedColor(s, command.color),
              run |-> awaitTimeout(at, SensorDelay, t)]

\* The for loop from command i on, up to the next await or the end.
RECURSIVE executeFrom(_, _, _, _)
executeFrom(s, run, i, t) ==
  IF i > Len(run.cmds)
  THEN [s |-> s, run |-> [run EXCEPT !.phase = "done", !.pc = i, !.wait = "none",
                                      !.doneAt = t]]
  ELSE IF mismatch(run.cmds[i], run.rtype)
  THEN executeFrom(s, [run EXCEPT !.skipped = Append(@, [idx |-> i, at |-> t])],
                   i + 1, t)
  ELSE applyCommand(s, run, i, t)

\* Lines 133-140: the store check and the read of the active robot type.
executeCommands(s, run, storeOk, t) ==
  IF ~storeOk
  THEN [s |-> s, run |-> [run EXCEPT !.phase = "done", !.wait = "none",
                                      !.rtype = "invalid", !.doneAt = t]]
  ELSE executeFrom(s, [run EXCEPT !.phase = "exec", !.rtype = s.robotType], 1, t)

\* Mutant: the settle timeout is set without its delay.
settleDueNoDelay(t) == t

\* Editor.jsx 57: setTimeout(resolve, 500).
settleDue(t) == t + SettleDelay

\* Editor.jsx 50-53: no command, an alert, and nothing else.
noCommands(cmds) == Len(cmds) = 0

\* Editor.jsx 43-57, up to the settle await.
handleRunStart(s, cmds, t) ==
  IF noCommands(cmds)
  THEN [s |-> s, run |-> [IdleRun EXCEPT !.phase = "alert", !.start = t]]
  ELSE [s |-> reset(s),
        run |-> [IdleRun EXCEPT !.phase = "settle", !.cmds = cmds,
                                !.wait = "timer", !.due = settleDue(t),
                                !.didReset = TRUE, !.start = t]]

\* A timer set for `due` may fire at time t.
timerMayFire(due, t) == t >= due

\* The time of the Executor's last SetVelocity, after run went on to run2 at t.
CmdTimeAfter(run, run2, t) ==
  IF \E k \in (Len(run.applied) + 1)..Len(run2.applied) :
        run2.cmds[run2.applied[k].idx].type = "move"
  THEN t ELSE cmdTime

NoTicks == [count |-> 0, coast |-> 0, at |-> NULL]

TicksAfter(run, run2, t) ==
  IF \E k \in (Len(run.applied) + 1)..Len(run2.applied) :
        run2.cmds[run2.applied[k].idx].type = "move"
  THEN NoTicks ELSE ticks

HandleRun(r) ==
  /\ runs[r].phase = "idle"
  /\ \A q \in 1..(r - 1) : runs[q].phase # "idle"
  /\ LET res == handleRunStart(store, parse(text), now)
     IN  /\ store' = res.s
         /\ runs' = [runs EXCEPT ![r] = res.run]
  /\ commands' = parse(text)
  /\ UNCHANGED <<now, text, fused, ticks, cmdTime, sensor, kin>>

SettleDone(r) ==
  /\ runs[r].phase = "settle"
  /\ timerMayFire(runs[r].due, now)
  /\ \E storeOk \in BOOLEAN :
       \E res \in {executeCommands(store, runs[r], storeOk, now)} :
           /\ store' = res.s
           /\ runs' = [runs EXCEPT ![r] = res.run]
           /\ cmdTime' = CmdTimeAfter(runs[r], res.run, now)
           /\ ticks' = TicksAfter(runs[r], res.run, now)
  /\ UNCHANGED <<now, text, commands, fused, sensor, kin>>

TimerFire(r) ==
  /\ runs[r].phase = "exec"
  /\ runs[r].wait = "timer"
  /\ timerMayFire(runs[r].due, now)
  /\ \E res \in {executeFrom(store, runs[r], runs[r].pc + 1, now)} :
         /\ store' = res.s
         /\ runs' = [runs EXCEPT ![r] = res.run]
         /\ cmdTime' = CmdTimeAfter(runs[r], res.run, now)
         /\ ticks' = TicksAfter(runs[r], res.run, now)
  /\ UNCHANGED <<now, text, commands, fused, sensor, kin>>

\* A requestAnimationFrame callback of animateJoint runs; when it resolves the
\* promise, the awaiting loop goes on in the same turn of the event loop.
AnimateFrame(r) ==
  /\ runs[r].phase = "exec"
  /\ runs[r].wait = "frame"
  /\ now > runs[r].anim.lastTime
  /\ \E fr \in {animateFrame(store, runs[r].anim, now)} :
       \E res \in {IF fr.resolved
                   THEN executeFrom(fr.s, [runs[r] EXCEPT !.anim = fr.anim],
                                    runs[r].pc + 1, now)
                   ELSE [s |-> fr.s, run |-> [runs[r] EXCEPT !.anim = fr.anim]]} :
         /\ store' = res.s
         /\ runs' = [runs EXCEPT ![r] = res.run]
         /\ cmdTime' = CmdTimeAfter(runs[r], res.run, now)
         /\ ticks' = TicksAfter(runs[r], res.run, now)
  /\ UNCHANGED <<now, text, commands, fused, sensor, kin>>

\* The loop of moveToPose after a step's promise resolved at time t: the next
\* step begins (lines 149-158), or the loop is over, the delayed clear is set
\* (lines 211-213) and the awaiting loop of executeCommands goes on.
poseGoesOn(s, run, t) ==
  IF run.pose.step < numSteps
  THEN [s |-> s,
        run |-> [run EXCEPT !.pose = stepStart(@, @.step + 1, s.jointAngles, t)]]
  ELSE executeFrom(s,
         [run EXCEPT !.clears = @ \cup {t + ClearDelay},
                     !.poses = Append(@, [before |-> run.pose.from[5],
                                          after |-> s.jointAngles[5]])],
         run.pc + 1, t)

\* A requestAnimationFrame callback of moveToPose runs.
PoseFrame(r) ==
  /\ runs[r].phase = "exec"
  /\ runs[r].wait = "pose"
  /\ now > runs[r].pose.lastTime
  /\ \E fr \in {poseFrame(store, runs[r].pose, now)} :
       \E res \in {IF fr.resolved
                   THEN poseGoesOn(fr.s, [runs[r] EXCEPT !.pose = fr.pose], now)
                   ELSE [s |-> fr.s, run |-> [runs[r] EXCEPT !.pose = fr.pose]]} :
         /\ store' = res.s
         /\ runs' = [runs EXCEPT ![r] = res.run]
         /\ cmdTime' = CmdTimeAfter(runs[r], res.run, now)
         /\ ticks' = TicksAfter(runs[r], res.run, now)
  /\ UNCHANGED <<now, text, commands, fused, sensor, kin>>

\* The callback of a delayed clear of moveToPose runs.
ClearFire(r) ==
  /\ \E due \in runs[r].clears :
       /\ timerMayFire(due, now)
       /\ runs' = [runs EXCEPT ![r].clears = @ \ {due}]
  /\ store' = clearTrajectory(store)
  /\ UNCHANGED <<now, text, commands, fused, ticks, cmdTime, sensor, kin>>

\* executeCommands called with a command sequence of the caller's own making
\* (here: the text's calls in source order) and the store.
InvokeExecute(r) ==
  /\ runs[r].phase = "idle"
  /\ \A q \in 1..(r - 1) : runs[q].phase # "idle"
  /\ \E run \in {[IdleRun EXCEPT !.cmds = SourceCommands(text), !.start = now]} :
       \E res \in {executeCommands(store, run, TRUE, now)} :
         /\ store' = res.s
         /\ runs' = [runs EXCEPT ![r] = res.run]
         /\ cmdTime' = CmdTimeAfter(run, res.run, now)
         /\ ticks' = TicksAfter(run, res.run, now)
  /\ UNCHANGED <<now, text, commands, fused, sensor, kin>>

\* Editor.jsx 63-65: the Reset button.
HandleReset ==
  /\ store' = reset(store)
  /\ runs' = [r \in DOMAIN runs |->
                IF runs[r].phase \in {"settle", "exec"}
                THEN [runs[r] EXCEPT !.superseded = TRUE] ELSE runs[r]]
  /\ UNCHANGED <<now, text, commands, fused, ticks, cmdTime, sensor, kin>>

\* RobotTypeToggle.jsx 10-21: a click on one of the two robot type buttons.
ToggleRobotType(type) ==
  /\ store' = setRobotType(store, type)
  /\ UNCHANGED <<runs, now, text, commands, fused, ticks, cmdTime, sensor, kin>>

\* The user deletes the editor's content.
ClearEditor ==
  /\ text # <<>>
  /\ text' = <<>>
  /\ UNCHANGED <<store, runs, now, commands, fused, ticks, cmdTime, sensor, kin>>

\* Time passes.  The clock is read only by suspended activations, so time that
\* passes while none is suspended is not modelled.
AdvanceClock(d, horizon) ==
  /\ now + d <= T0 + horizon
  /\ \E r \in DOMAIN runs :
       runs[r].phase \in {"settle", "exec"} \/ runs[r].clears # {}
  /\ now' = now + d
  /\ UNCHANGED <<store, runs, text, commands, fused, ticks, cmdTime, sensor, kin>>


\* A requestAnimationFrame callback of the activation is to run in the frame
\* at time t.
framePending(run, t) ==
  /\ run.phase = "exec"
  /\ \/ run.wait = "frame" /\ t > run.anim.lastTime
     \/ run.wait = "pose" /\ t > run.pose.lastTime

\* A timeout of the activation is due at time t.
timerPending(run, t) ==
  \/ run.phase = "settle" /\ timerMayFire(run.due, t)
  \/ run.phase = "exec" /\ run.wait = "timer" /\ timerMayFire(run.due, t)
  \/ \E due \in run.clears : timerMayFire(due, t)

\* The browser goes from one frame to the next, d later: every callback
\* requested with requestAnimationFrame has run in the frame that ends, and
\* so has every timeout that was due.
FramePasses(d, horizon) ==
  /\ \A r \in DOMAIN runs : ~framePending(runs[r], now) /\ ~timerPending(runs[r], now)
  /\ AdvanceClock(d, horizon)

\* A frame of the simulation (RoverModel's useFrame callback), deltaTime
\* after the frame before: the physics tick.
PhysicsFrame(deltaTime, horizon) ==
  /\ now + deltaTime <= T0 + horizon
  /\ now' = now + deltaTime
  /\ store' = updateRoverPhysics(store, deltaTime, now')
  /\ ticks' = [count |-> Min(ticks.count + 1, MaxTicks),
                coast |-> Min(ticks.coast + deltaTime, horizon),
                at |-> now']
  /\ UNCHANGED <<runs, text, commands, fused, cmdTime, sensor, kin>>

NoKin == [stage |-> "none", J |-> Zero5, pose |-> Vector3(0, 0, 0),
          angles |-> Zero5, reached |-> Vector3(0, 0, 0)]

\* The end-effector pose of a joint configuration J is computed.
Forward(J) ==
  /\ kin.stage = "none"
  /\ kin' = [kin EXCEPT !.stage = "forward", !.J = J, !.pose = forwardKinematics(J)]
  /\ UNCHANGED <<store, runs, now, text, commands, fused, ticks, cmdTime, sensor>>

\* The inverse kinematics of that pose is solved, from the default angles.
Inverse ==
  /\ kin.stage = "forward"
  /\ kin' = [kin EXCEPT !.stage = "inverse",
                        !.angles = inverseKinematics(kin.pose, Zero5)]
  /\ UNCHANGED <<store, runs, now, text, commands, fused, ticks, cmdTime, sensor>>

\* The pose of the solution is computed.
Back ==
  /\ kin.stage = "inverse"
  /\ kin' = [kin EXCEPT !.stage = "back", !.reached = forwardKinematics(kin.angles)]
  /\ UNCHANGED <<store, runs, now, text, commands, fused, ticks, cmdTime, sensor>>

NoFusion == [count |-> 0, crossed |-> FALSE]

NoSensor ==
  [lastDistanceUpdate |-> 0, intersects |-> <<>>, updated |-> FALSE, returned |-> NULL]

\* A frame of the rover, deltaTime after the frame before, in which
\* updateDistanceSensor is called with the raycaster finding `intersects`.
SenseDistance(intersects, deltaTime, horizon) ==
  /\ store.robotType = "rover"
  /\ now + deltaTime <= T0 + horizon
  /\ now' = now + deltaTime
  /\ LET res == updateDistanceSensor(store, sensor.lastDistanceUpdate, intersects, now')
     IN  /\ store' = res.s
         /\ sensor' = [lastDistanceUpdate |-> res.lastDistanceUpdate,
                       intersects |-> intersects,
                       updated |-> ~sensorGated(sensor.lastDistanceUpdate, now'),
                       returned |-> res.returned]
  /\ UNCHANGED <<runs, text, commands, fused, ticks, cmdTime, kin>>

\* The 10 Hz branch of RoverModel's frame callback: a LiDAR scan is fused into
\* the map.  fused.crossed records that a ray of this scan ran over a cell
\* that was Occupied before the call.
Fuse(lidarScan, robotPosition, mapSize, resolution) ==
  /\ store.robotType = "rover"
  /\ fused.count < MaxFusions
  /\ store' = updateOccupancyMap(store, lidarScan, robotPosition, mapSize, resolution)
  /\ fused' = [count |-> fused.count + 1,
               crossed |->
                 /\ store.occupancyMap # NoMap
                 /\ \E k \in 1..Len(lidarScan) :
                      \E i \in freeCells(lidarScan[k], robotPosition[1],
                                         robotPosition[3], mapSize * resolution,
                                         resolution) :
                        store.occupancyMap[i] = 2]
  /\ UNCHANGED <<runs, now, text, commands, ticks, cmdTime, sensor, kin>>

\* The same call, with its arguments recorded in fused.
FuseScan(lidarScan, robotPosition, mapSize, resolution) ==
  /\ store.robotType = "rover"
  /\ fused.count < MaxFusions
  /\ store' = updateOccupancyMap(store, lidarScan, robotPosition, mapSize, resolution)
  /\ fused' = [count |-> fused.count + 1,
               lidarScan |-> lidarScan,
               robotPosition |-> robotPosition,
               gridSize |-> mapSize * resolution,
               resolution |-> resolution]
  /\ UNCHANGED <<runs, now, text, commands, ticks, cmdTime, sensor, kin>>

(***************************************************************************)
(* Texts of the model.                                                     *)
(***************************************************************************)
RECURSIVE SeqsUpTo(_, _)
SeqsUpTo(S, n) ==
  IF n = 0 THEN {<<>>}
  ELSE LET shorter == SeqsUpTo(S, n - 1)
       IN  shorter \cup {Append(q, x) : q \in shorter, x \in S}

ArmTokens ==
  {Tok("moveJoint", <<0, 45>>, <<>>),
   Tok("moveJoint", <<1, 30>>, <<>>),
   Tok("moveJoint", <<0, 90>>, <<>>),
   Tok("openGripper", <<>>, <<>>),
   Tok("closeGripper", <<>>, <<>>),
   Tok("move", <<1000, 0>>, <<>>),
   Tok("getDistance", <<>>, <<>>),
   Tok("setLight", <<>>, <<"2", "5", "5">>)}

NoRuns == [r \in 1..MaxRuns |-> IdleRun]

\* The program after construction, with some text in the editor.
InitWith(texts, types) ==
  /\ store \in {setRobotType(InitialStore, ty) : ty \in types}
  /\ runs = NoRuns
  /\ now = T0
  /\ text \in texts
  /\ commands = <<>>
  /\ fused = NoFusion
  /\ ticks = NoTicks
  /\ cmdTime = NULL
  /\ sensor = NoSensor
  /\ kin = NoKin

(***************************************************************************)
(* SpecSeq: one Run click and nothing that interferes with it, with either *)
(* robot active.                                                           *)
(***************************************************************************)
ClockStep == 250

InitSeq == InitWith(SeqsUpTo(ArmTokens, MaxLen), {"arm", "rover"})

NextSeq ==
  \/ HandleRun(1)
  \/ InvokeExecute(1)
  \/ SettleDone(1)
  \/ TimerFire(1)
  \/ AnimateFrame(1)
  \/ AdvanceClock(ClockStep, MaxSteps * ClockStep)

SpecSeq == InitSeq /\ [][NextSeq]_vars

(***************************************************************************)
(* Spec: Run and Reset clicks at any moment, on the arm.                   *)
(***************************************************************************)
ClickTokens ==
  {Tok("moveJoint", <<0, 45>>, <<>>),
   Tok("openGripper", <<>>, <<>>)}

Init == InitWith(SeqsUpTo(ClickTokens, MaxLen - 1), {"arm"})

Next ==
  \/ \E r \in 1..MaxRuns : HandleRun(r)
  \/ \E r \in 1..MaxRuns : SettleDone(r)
  \/ \E r \in 1..MaxRuns : TimerFire(r)
  \/ \E r \in 1..MaxRuns : AnimateFrame(r)
  \/ HandleReset
  \/ ClearEditor
  \/ AdvanceClock(ClockStep, ClickSteps * ClockStep)

Spec == Init /\ [][Next]_vars


(***************************************************************************)
(* Claims about the Executor.                                              *)
(***************************************************************************)
\* What a command has done to the robot once its suspension is over.
effectOf(s, command) ==
  CASE command.type = "moveJoint" ->
         [s EXCEPT !.jointAngles[command.args[1] + 1] = command.args[2]]
    [] command.type = "closeGripper" ->
         IF Len(command.args) > 0
         THEN [s EXCEPT !.gripperState = 0, !.gripperMaxEffort = command.args[1],
                        !.gripperEffort = 0]
         ELSE [s EXCEPT !.gripperState = 0]
    [] command.type = "openGripper" -> [s EXCEPT !.gripperState = 1]
    [] command.type = "move" ->
         [s EXCEPT !.velocity = [vx |-> command.args[1], wz |-> command.args[2]]]
    [] command.type = "setLight" -> [s EXCEPT !.ledColor = command.color]
    [] OTHER -> s

RECURSIVE effectOfAll(_, _, _)
effectOfAll(s, cmds, activeType) ==
  IF cmds = <<>> THEN s
  ELSE effectOfAll(IF Head(cmds).robotType = activeType
                   THEN effectOf(s, Head(cmds)) ELSE s,
                   Tail(cmds), activeType)

\* The fields of the robots that commands set, the command timestamp apart.
RobotView(s) ==
  <<s.jointAngles, s.jointVelocities, s.jointEfforts, s.gripperState,
    s.gripperMaxEffort, s.isAnimating, s.velocity, s.ledColor, s.position,
    s.rotation>>

Finished(r) == runs[r].phase = "done" /\ runs[r].rtype \in {"arm", "rover"}

\* C2: after a run, the robot is in the state that applying the text's
\* recognised calls one after another in source order produces.
C2_SourceOrderExecution ==
  (Finished(1) /\ runs[1].didReset)
    => RobotView(store)
         = RobotView(effectOfAll(setRobotType(InitialStore, runs[1].rtype),
                                 SourceCommands(text), runs[1].rtype))

\* The suspension of a command: how long after its begin the next may begin.
suspensionOf(command) ==
  CASE command.type = "moveJoint" -> JointDuration
    [] command.type \in {"closeGripper", "openGripper"} -> GripperDelay
    [] command.type = "move" -> MoveDelay
    [] command.type \in {"getDistance", "setLight"} -> SensorDelay

RECURSIVE indicesWhere(_, _, _, _)
indicesWhere(cmds, activeType, same, i) ==
  IF i > Len(cmds) THEN <<>>
  ELSE (IF (cmds[i].robotType = activeType) = same THEN <<i>> ELSE <<>>)
         \o indicesWhere(cmds, activeType, same, i + 1)

idxOf(e) == e.idx

\* The time at which the loop reached command i (it was applied or skipped).
reachedAt(run, i) ==
  LET hit == {e \in {run.applied[k] : k \in 1..Len(run.applied)}
                     \cup {run.skipped[k] : k \in 1..Len(run.skipped)} : e.idx = i}
  IN  IF hit = {} THEN NULL ELSE (CHOOSE e \in hit : TRUE).at

\* C5: a command whose tag differs from the active type is skipped: it is
\* never applied, the loop reaches the next command (or its end) at the same
\* instant, every command with the active type's tag is still applied, in
\* order, and at the end the robots are as the matching commands alone leave
\* them.
C5_MismatchSkipped ==
  \A r \in DOMAIN runs :
    (runs[r].phase \in {"exec", "done"} /\ runs[r].rtype \in {"arm", "rover"}) =>
      LET run == runs[r]
          done == run.phase = "done"
          upto == IF done THEN Len(run.cmds) ELSE run.pc
      IN  /\ MapSeq(idxOf, run.applied)
               = indicesWhere(SubSeq(run.cmds, 1, upto), run.rtype, TRUE, 1)
          /\ MapSeq(idxOf, run.skipped)
               = indicesWhere(SubSeq(run.cmds, 1, upto), run.rtype, FALSE, 1)
          /\ \A k \in 1..Len(run.skipped) :
               LET i == run.skipped[k].idx
               IN  IF i < Len(run.cmds) THEN reachedAt(run, i + 1) = run.skipped[k].at
                   ELSE done /\ run.doneAt = run.skipped[k].at
          /\ (done /\ r = 1 /\ runs[2].phase = "idle")
               => RobotView(store)
                    = RobotView(effectOfAll(setRobotType(InitialStore, run.rtype),
                         MapSeq(LAMBDA i : run.cmds[i],
                                indicesWhere(run.cmds, run.rtype, TRUE, 1)),
                         run.rtype))

C5_Witness ==
  /\ runs[1].phase = "done"
  /\ runs[1].rtype = "arm"
  /\ Len(runs[1].cmds) = 3
  /\ Len(runs[1].skipped) = 1
  /\ runs[1].skipped[1].idx = 2
  /\ Len(runs[1].applied) = 2

\* The target of the last MoveJoint of cmds addressed to joint j, 0 if none.
RECURSIVE lastJointTarget(_, _)
lastJointTarget(cmds, j) ==
  IF cmds = <<>> THEN 0
  ELSE LET c == cmds[Len(cmds)]
       IN  IF c.type = "moveJoint" /\ c.args[1] = j THEN c.args[2]
           ELSE lastJointTarget(SubSeq(cmds, 1, Len(cmds) - 1), j)

\* The state of the last gripper command of cmds, Closed (0) if none.
RECURSIVE lastGripper(_)
lastGripper(cmds) ==
  IF cmds = <<>> THEN 0
  ELSE LET c == cmds[Len(cmds)]
       IN  IF c.type = "openGripper" THEN 1
           ELSE IF c.type = "closeGripper" THEN 0
           ELSE lastGripper(SubSeq(cmds, 1, Len(cmds) - 1))

\* C6: a sequence of MoveJoint and gripper commands executed on a freshly
\* reset arm ends with every joint at the angle of the last MoveJoint
\* addressed to it (0 if none) and the gripper in the state of the last
\* gripper command (Closed if none).
C6_FinalState ==
  (runs[1].phase = "done" /\ runs[1].rtype = "arm") =>
     /\ \A j \in 0..4 : store.jointAngles[j + 1] = lastJointTarget(runs[1].cmds, j)
     /\ store.gripperState = lastGripper(runs[1].cmds)
     /\ store.jointVelocities = Zero5
     /\ ~store.isAnimating

C6_Witness ==
  /\ runs[1].phase = "done"
  /\ runs[1].rtype = "arm"
  /\ runs[1].cmds = <<Cmd("moveJoint", "arm", <<0, 45>>, <<>>),
                      Cmd("moveJoint", "arm", <<1, 30>>, <<>>),
                      Cmd("openGripper", "arm", <<>>, <<>>)>>
  /\ store.jointAngles = <<45, 30, 0, 0, 0>>
  /\ store.gripperState = 1


(***************************************************************************)
(* Claims about Run and Reset.                                             *)
(***************************************************************************)
\* C3: once Reset was clicked while a command sequence was suspended, no
\* later step of that sequence (an animation frame, a timer, a later
\* command) changes the robot's state.
C3_ResetSupersedes ==
  [][\A r \in DOMAIN runs :
       (runs[r].superseded /\ runs'[r] # runs[r]) => store' = store]_vars

\* A Run click taken by slot r in this step.
RunClicked(r) == runs[r].phase = "idle" /\ runs'[r].phase # "idle"

RoverTokens ==
  {Tok("move", <<1000, 0>>, <<>>),
   Tok("move", <<-400, 500>>, <<>>),
   Tok("getDistance", <<>>, <<>>)}

FrameSteps == {100, 600}

RoverSteps == 22

InitRover == InitWith(SeqsUpTo(RoverTokens, MaxLen - 1) \ {<<>>}, {"rover"})

\* Frames before the Run click find the rover at rest and are not modelled.
NextRover ==
  \/ HandleRun(1)
  \/ SettleDone(1)
  \/ TimerFire(1)
  \/ \E dt \in FrameSteps :
       runs[1].phase # "idle" /\ PhysicsFrame(dt, RoverSteps * 100)

SpecRover == InitRover /\ [][NextRover]_vars


(***************************************************************************)
(* SpecCoast: the rover right after the Executor applied a SetVelocity,    *)
(* and then physics ticks only, with any deltaTime >= 0.                   *)
(***************************************************************************)
CoastVelocities == {-400, 0, 1000}

CoastSteps == {0, 100, 600}

CoastHorizon == 16

InitCoast ==
  /\ \E vx \in CoastVelocities, wz \in CoastVelocities :
       store = setVelocity(setRobotType(InitialStore, "rover"), vx, wz, T0)
  /\ runs = NoRuns
  /\ now = T0
  /\ text = <<>>
  /\ commands = <<>>
  /\ fused = NoFusion
  /\ ticks = NoTicks
  /\ cmdTime = T0
  /\ sensor = NoSensor
  /\ kin = NoKin

NextCoast == \E dt \in CoastSteps : PhysicsFrame(dt, CoastHorizon * 100)

SpecCoast == InitCoast /\ [][NextCoast]_vars


(***************************************************************************)
(* Claims about the rover's physics tick.                                  *)
(***************************************************************************)
AtRest == store.velocity = [vx |-> 0, wz |-> 0]

\* A physics tick ran after the Executor's last SetVelocity.
Ticked == cmdTime # NULL /\ ticks.at # NULL /\ ticks.count > 0

\* C1: with the rover active, once a physics tick has run more than 500 ms
\* after the Executor's last SetVelocity, the velocity is (0,0), whatever ticks
\* ran in between.
C1_WatchdogStops ==
  (store.robotType = "rover" /\ Ticked /\ ticks.at > cmdTime + WATCHDOG_TIMEOUT)
    => AtRest

\* C8 as stated: with no new command and physics ticks of any deltaTime >= 0,
\* the velocity is exactly (0,0) within a bounded number of ticks.
C8_RestWithinBoundedTicks == (Ticked /\ ticks.count >= MaxTicks) => AtRest

CoastBound == 15

\* C8, amended: with no new command, a tick never increases the magnitude of
\* a velocity component, a tick with deltaTime > 0 strictly decreases every
\* nonzero component, a tick with deltaTime = 0 leaves the velocity as it is,
\* and the velocity is exactly (0,0) once the ticks' deltaTime sum to 1.5 s
\* (for components of magnitude at most 1.0).
C8_FrictionDecays ==
  /\ [](ticks.coast >= CoastBound * 100 => AtRest)
  /\ [][ticks' # ticks =>
          /\ Abs(store'.velocity.vx) <= Abs(store.velocity.vx)
          /\ Abs(store'.velocity.wz) <= Abs(store.velocity.wz)
          /\ (now' > now /\ store.velocity.vx # 0) =>
                Abs(store'.velocity.vx) < Abs(store.velocity.vx)
          /\ (now' > now /\ store.velocity.wz # 0) =>
                Abs(store'.velocity.wz) < Abs(store.velocity.wz)
          /\ now' = now => store'.velocity = store.velocity]_vars

\* Friction alone, in ticks of 100 ms, has brought a rover commanded to 1.0 m/s
\* to rest.
C8_Witness ==
  /\ AtRest
  /\ ticks.count >= 15
  /\ ticks.coast = ticks.count * 100
  /\ store.position[3] > 0
  /\ store.lastCommandTime > T0 + 1000


(***************************************************************************)
(* SpecMap: the rover, and LiDAR scans fused from several positions.       *)
(***************************************************************************)
GridMapSize == 2       \* metres: the map's side

GridResolution == 2    \* cells per metre

ScanRays ==
  {[angle |-> a, distance |-> d] : a \in {0, 785, 3142}, d \in {300, 700, 5000}}

Scans == {<<r>> : r \in ScanRays} \cup {<<r, q>> : r \in ScanRays, q \in ScanRays}

RobotPositions == {<<0, 100, 0>>, <<0, 100, -600>>}

InitMap ==
  /\ store = setRobotType(InitialStore, "rover")
  /\ runs = NoRuns
  /\ now = T0
  /\ text = <<>>
  /\ commands = <<>>
  /\ fused = NoFusion
  /\ ticks = NoTicks
  /\ cmdTime = NULL
  /\ sensor = NoSensor
  /\ kin = NoKin

NextMap ==
  \E lidarScan \in Scans, robotPosition \in RobotPositions :
    Fuse(lidarScan, robotPosition, GridMapSize, GridResolution)

SpecMap == InitMap /\ [][NextMap]_vars

\* C7: a fusion leaves every Occupied cell Occupied, and a cell it marks Free
\* was Unknown or Free before.
C7_OccupiedSticky ==
  [][(store.occupancyMap # NoMap /\ store'.occupancyMap # store.occupancyMap) =>
       /\ Len(store'.occupancyMap) = Len(store.occupancyMap)
       /\ \A i \in 1..Len(store.occupancyMap) :
            /\ store.occupancyMap[i] = 2 => store'.occupancyMap[i] = 2
            /\ store'.occupancyMap[i] = 1 => store.occupancyMap[i] \in {0, 1}]_vars

\* A later fusion's ray ran over a cell that was Occupied, and the cell is
\* Occupied still.
C7_Witness ==
  /\ fused.count >= 2
  /\ fused.crossed
  /\ \E i \in 1..Len(store.occupancyMap) : store.occupancyMap[i] = 2

(***************************************************************************)
(* SpecParse: the parser applied to texts with moveJoint calls of valid    *)
(* and invalid index.                                                      *)
(***************************************************************************)
ParseTokens ==
  {Tok("moveJoint", <<0, 45>>, <<>>),
   Tok("moveJoint", <<7, 10>>, <<>>),
   Tok("moveJoint", <<4, -30>>, <<>>),
   Tok("moveJoint", <<5, 0>>, <<>>),
   Tok("moveJoint", <<-1, 10>>, <<>>),
   Tok("openGripper", <<>>, <<>>),
   Tok("closeGripper", <<>>, <<>>)}

InitParse == InitWith(SeqsUpTo(ParseTokens, MaxLen), {"arm"})

NextParse == HandleRun(1)

SpecParse == InitParse /\ [][NextParse]_vars

Parsed == runs[1].phase # "idle"

isMoveJointCall(t) == t.name = "moveJoint"

isMoveJointCommand(c) == c.type = "moveJoint"

notMoveJointCall(t) == ~isMoveJointCall(t)

notMoveJointCommand(c) == ~isMoveJointCommand(c)

indexInRange(t) == isMoveJointCall(t) /\ t.args[1] \in 0..4

argsOf(x) == x.args

ExampleText ==
  <<Tok("moveJoint", <<0, 45>>, <<>>), Tok("moveJoint", <<7, 10>>, <<>>),
    Tok("openGripper", <<>>, <<>>)>>

\* C9: the MoveJoint commands of parse(text) are, in order, the moveJoint
\* calls of the text whose index is in 0..4; the other commands are those of
\* the text without its moveJoint calls; and moveJoint(0,45); moveJoint(7,10);
\* openGripper(); yields exactly MoveJoint{0,45}, OpenGripper{}.
C9_JointIndexFilter ==
  Parsed =>
    /\ MapSeq(argsOf, SelectSeq(commands, isMoveJointCommand))
         = MapSeq(argsOf, SelectSeq(text, indexInRange))
    /\ SelectSeq(commands, notMoveJointCommand)
         = parse(SelectSeq(text, notMoveJointCall))
    /\ text = ExampleText =>
         commands = <<Cmd("moveJoint", "arm", <<0, 45>>, <<>>),
                      Cmd("openGripper", "arm", <<>>, <<>>)>>

\* The example text has been parsed.
C9_Witness == Parsed /\ text = ExampleText /\ Len(commands) = 2


(***************************************************************************)
(* SpecArm: the arm, texts with a joint angle outside the joint's range    *)
(* and with closeGripper calls with and without an effort, one Run click,  *)
(* and Reset clicked at any moment.                                        *)
(***************************************************************************)
ArmLimitTokens ==
  {Tok("moveJoint", <<1, 120>>, <<>>),
   Tok("closeGripper", <<300>>, <<>>),
   Tok("closeGripper", <<>>, <<>>)}

InitArm == InitWith(SeqsUpTo(ArmLimitTokens, MaxLen - 1), {"arm"})

NextArm ==
  \/ HandleRun(1)
  \/ SettleDone(1)
  \/ TimerFire(1)
  \/ AnimateFrame(1)
  \/ HandleReset
  \/ AdvanceClock(ClockStep, ClickSteps * ClockStep)

SpecArm == InitArm /\ [][NextArm]_vars

\* The range of joint j (counted from 0), in degrees.
jointLimit(j) == CASE j \in {0, 4} -> 180 [] j \in {1, 3} -> 90 [] j = 2 -> 150

\* C11: in every reachable state each joint angle lies in its joint's range:
\* joints 0 and 4 in [-180,180], joints 1 and 3 in [-90,90], joint 2 in
\* [-150,150].
C11_JointRange ==
  \A j \in 0..4 : Abs(store.jointAngles[j + 1]) <= jointLimit(j)

\* The command the activation applied last.
lastApplied(run) == run.cmds[run.applied[Len(run.applied)].idx]

\* C14: after a CloseGripper command is applied the gripper is Closed and its
\* maxEffort threshold is the command's effort, 0.8 when the command has none.
C14_DefaultClosingEffort ==
  (Len(runs[1].applied) > 0 /\ lastApplied(runs[1]).type = "closeGripper")
    => /\ store.gripperState = 0
       /\ store.gripperMaxEffort
            = IF Len(lastApplied(runs[1]).args) > 0
              THEN lastApplied(runs[1]).args[1] ELSE 800

\* The fields of the arm.
ArmView(s) ==
  <<s.jointAngles, s.jointVelocities, s.jointEfforts, s.gripperState,
    s.gripperEffort, s.gripperMaxEffort, s.trajectoryPath, s.isAnimating>>

\* C16 (arm): right after a reset that supersedes a command sequence, every
\* field of the arm has its initial value.
C16_ResetReinitialises ==
  [][(\E r \in DOMAIN runs : ~runs[r].superseded /\ runs'[r].superseded)
       => ArmView(store') = ArmView(InitialStore)]_vars


(***************************************************************************)
(* SpecSensor: the rover running a text of getDistance calls while frames  *)
(* update the distance sensor.                                             *)
(***************************************************************************)
SensorTokens == {Tok("getDistance", <<>>, <<>>)}

Intersections ==
  {[distance |-> d, name |-> n] :
     d \in {0, 1200, 6000}, n \in {{}, {"robot", "helper"}}}

\* What a raycast may find: nothing, one object, or a part of the robot and
\* an object behind it.
RaycastResults ==
  {<<>>} \cup {<<h>> : h \in Intersections}
    \cup {q \in {<<h, g>> : h \in Intersections, g \in Intersections} :
            q[1].name # {} /\ q[1].distance <= q[2].distance}

SensorFrameSteps == {50, 100}

SensorSteps == 8

InitSensor == InitWith(SeqsUpTo(SensorTokens, MaxLen - 1) \ {<<>>}, {"rover"})

NextSensor ==
  \/ HandleRun(1)
  \/ SettleDone(1)
  \/ TimerFire(1)
  \/ \E intersects \in RaycastResults, dt \in SensorFrameSteps :
       SenseDistance(intersects, dt, SensorSteps * 100)

SpecSensor == InitSensor /\ [][NextSensor]_vars

\* The objects of a raycast that are neither robot nor helper, grid or lidar.
counted(h) == \A w \in {"robot", "helper", "grid", "lidar"} : w \notin h.name

countedHits(intersects) == SelectSeq(intersects, counted)

\* C13: the stored distance reading lies in [0, 5.0] m; a sensor update that
\* finds no valid intersection stores exactly 5.0, one that finds some stores
\* the nearest, at most 5.0; reading the distance returns the stored value.
C13_DistanceRange ==
  /\ [](store.distance >= 0 /\ store.distance <= 5000
          /\ getDistance(store) = store.distance)
  /\ [][(sensor' # sensor /\ sensor'.updated) =>
          /\ sensor'.returned = store'.distance
          /\ IF countedHits(sensor'.intersects) = <<>>
             THEN store'.distance = 5000
             ELSE \/ store'.distance = countedHits(sensor'.intersects)[1].distance
                  \/ /\ store'.distance = 5000
                     /\ countedHits(sensor'.intersects)[1].distance > 5000]_vars

\* An update found only the robot itself and stored 5.0, after an earlier
\* update had stored less, while a getDistance command was suspended.
C13_Witness ==
  /\ sensor.updated
  /\ Len(sensor.intersects) > 0
  /\ countedHits(sensor.intersects) = <<>>
  /\ store.distance = 5000
  /\ sensor.lastDistanceUpdate >= T0 + 200
  /\ runs[1].phase = "exec"


(***************************************************************************)
(* SpecSpeed: the rover running move commands beyond the velocity limits   *)
(* that physics.js declares, and the physics ticks.                        *)
(***************************************************************************)
MAX_LINEAR_VELOCITY == 2000

MAX_ANGULAR_VELOCITY == 1500

SpeedTokens == {Tok("move", <<3000, 2000>>, <<>>), Tok("move", <<1000, 0>>, <<>>)}

InitSpeed == InitWith(SeqsUpTo(SpeedTokens, MaxLen - 1) \ {<<>>}, {"rover"})

SpecSpeed == InitSpeed /\ [][NextRover]_vars

\* C12: in every reachable state of the rover |vx| <= 2.0 m/s and
\* |wz| <= 1.5 rad/s.
C12_VelocityBound ==
  store.robotType = "rover" =>
    /\ Abs(store.velocity.vx) <= MAX_LINEAR_VELOCITY
    /\ Abs(store.velocity.wz) <= MAX_ANGULAR_VELOCITY

\* The positions in run.applied of the move commands.
appliedMoves(run) ==
  {k \in 1..Len(run.applied) : run.cmds[run.applied[k].idx].type = "move"}

\* The arguments of the move command the activation applied last.
lastMove(run) ==
  LET k == CHOOSE m \in appliedMoves(run) : \A n \in appliedMoves(run) : n <= m
  IN  run.cmds[run.applied[k].idx].args

\* C15: at every physics tick that runs within 500 ms of the last move(vx, wz)
\* command, the rover's velocity equals (vx, wz).
C15_VelocityHeld ==
  (Ticked /\ appliedMoves(runs[1]) # {} /\ ticks.at <= cmdTime + WATCHDOG_TIMEOUT)
    => store.velocity = [vx |-> lastMove(runs[1])[1], wz |-> lastMove(runs[1])[2]]

\* The fields of the store other than the rover's position, heading and
\* velocity.
TickFrame(s) ==
  <<s.robotType, s.jointAngles, s.jointVelocities, s.jointEfforts, s.gripperState,
    s.gripperEffort, s.gripperMaxEffort, s.trajectoryPath, s.animationQueue,
    s.isAnimating, s.ledColor, s.lastCommandTime, s.distance, s.velocityHistory,
    s.occupancyMap>>

\* C19: a physics tick changes only the rover's position, heading and
\* velocity; it leaves lastCommandTime as it is.  (Every step of SpecCoast is a
\* physics tick.)
C19_TickFrame == [][TickFrame(store') = TickFrame(store)]_vars


(***************************************************************************)
(* SpecText: the parser applied to texts with calls of every kind, a       *)
(* malformed call, a call the parser does not know, and comments.          *)
(***************************************************************************)
TextTokens ==
  {Tok("moveJoint", <<0, 45>>, <<>>),
   Tok("moveJoint", <<7, 10>>, <<>>),
   Tok("closeGripper", <<>>, <<>>),
   Tok("openGripper", <<>>, <<>>),
   Tok("openGripper", <<1>>, <<>>),
   Tok("moveToPose", <<300, 200, 100>>, <<>>),
   Tok("move", <<1000, 0>>, <<>>),
   Tok("getDistance", <<>>, <<>>),
   Tok("setLight", <<>>, <<"2", "5", "5">>),
   Tok("wave", <<>>, <<>>),
   Tok("//", <<>>, <<>>),
   Tok("newline", <<>>, <<>>),
   Tok("/*", <<>>, <<>>),
   Tok("*/", <<>>, <<>>)}

InitText == InitWith(SeqsUpTo(TextTokens, MaxLen + 1), {"arm"})

NextText == HandleRun(1)

SpecText == InitText /\ [][NextText]_vars

\* The tokens of a text that lie outside its comments, the comments read as a
\* C++ compiler reads them: a // outside a comment opens a comment that ends
\* with the line, a /* outside a comment opens one that ends with the next */
\* (a /* that no */ follows opens none).
RECURSIVE outsideComments(_, _, _)
outsideComments(code, i, mode) ==
  IF i > Len(code) THEN <<>>
  ELSE CASE mode = "line" ->
              IF code[i].name = "newline"
              THEN <<code[i]>> \o outsideComments(code, i + 1, "code")
              ELSE outsideComments(code, i + 1, "line")
         [] mode = "block" ->
              outsideComments(code, i + 1, IF code[i].name = "*/" THEN "code" ELSE "block")
         [] mode = "code" ->
              IF code[i].name = "//" THEN outsideComments(code, i + 1, "line")
              ELSE IF code[i].name = "/*" /\ closing(code, i + 1) # 0
              THEN outsideComments(code, i + 1, "block")
              ELSE <<code[i]>> \o outsideComments(code, i + 1, "code")

\* The number of arguments a call of a kind takes.
arityOf(name) ==
  CASE name = "moveJoint" -> {2}
    [] name = "closeGripper" -> {0, 1}
    [] name = "moveToPose" -> {3}
    [] name = "move" -> {2}
    [] name \in {"openGripper", "getDistance", "setLight"} -> {0}
    [] OTHER -> {}

\* A well-formed call of a kind the parser knows (a moveJoint index is a
\* sequence of digits, a setLight argument is not empty).
wellFormed(t) ==
  /\ Len(t.args) \in arityOf(t.name)
  /\ t.name = "moveJoint" => t.args[1] >= 0
  /\ t.name = "setLight" => t.sarg # <<>>

\* C17: parse returns for every text, and when every call of the text lies
\* inside a // or /* */ comment, or is malformed or unknown, it returns no
\* command.
C17_TotalIgnoresComments ==
  (Parsed /\ SelectSeq(outsideComments(text, 1, "code"), wellFormed) = <<>>)
    => commands = <<>>

KindOrder ==
  <<"moveJoint", "closeGripper", "openGripper", "moveToPose", "move", "getDistance",
    "setLight">>

kindRank(type) == CHOOSE k \in 1..Len(KindOrder) : KindOrder[k] = type

\* The arguments of the commands of one kind, in order.
RECURSIVE commandArgsOfKind(_, _)
commandArgsOfKind(cmds, kind) ==
  IF cmds = <<>> THEN <<>>
  ELSE (IF Head(cmds).type = kind THEN <<Head(cmds).args>> ELSE <<>>)
         \o commandArgsOfKind(Tail(cmds), kind)

\* The arguments of the well-formed calls of one kind, in order, leaving out
\* the moveJoint calls with an index above 4.
RECURSIVE callArgsOfKind(_, _)
callArgsOfKind(code, kind) ==
  IF code = <<>> THEN <<>>
  ELSE (IF /\ Head(code).name = kind
           /\ wellFormed(Head(code))
           /\ ~(kind = "moveJoint" /\ Head(code).args[1] > 4)
        THEN <<IF kind \in {"openGripper", "getDistance", "setLight"}
               THEN <<>> ELSE Head(code).args>>
        ELSE <<>>)
         \o callArgsOfKind(Tail(code), kind)

\* C20: the commands of parse(text) come kind by kind in the order moveJoint,
\* closeGripper, openGripper, moveToPose, move, getDistance, setLight, and the
\* commands of one kind are, in source order, the well-formed calls of that
\* kind in the comment-stripped text (but for moveJoint calls with an index
\* above 4).
C20_PerKindOrder ==
  Parsed =>
    /\ \A k \in 1..(Len(commands) - 1) :
         kindRank(commands[k].type) <= kindRank(commands[k + 1].type)
    /\ \A k \in 1..Len(KindOrder) :
         commandArgsOfKind(commands, KindOrder[k])
           = callArgsOfKind(stripComments(text), KindOrder[k])

\* Calls of three kinds, in the text against the kind order, have been parsed.
C20_Witness ==
  /\ Parsed
  /\ text = <<Tok("move", <<1000, 0>>, <<>>), Tok("openGripper", <<>>, <<>>),
              Tok("moveJoint", <<0, 45>>, <<>>)>>
  /\ commands = <<Cmd("moveJoint", "arm", <<0, 45>>, <<>>),
                  Cmd("openGripper", "arm", <<>>, <<>>),
                  Cmd("move", "rover", <<1000, 0>>, <<>>)>>

(***************************************************************************)
(* SpecKin: the kinematics functions applied to the joint configurations   *)
(* of a grid over the joint ranges.                                        *)
(***************************************************************************)
KinStep == 45

\* The angles of joint j (counted from 0) on the grid, in 1/100 degree.
JointGrid(j) == {100 * a : a \in {b \in -jointLimit(j)..jointLimit(j) : b % KinStep = 0}}

Configurations ==
  {<<a0, a1, a2, a3, 0>> : a0 \in JointGrid(0), a1 \in JointGrid(1),
                           a2 \in JointGrid(2), a3 \in JointGrid(3)}

InitKin == InitWith({<<>>}, {"arm"})

NextKin ==
  \/ \E J \in Configurations : Forward(J)
  \/ Inverse
  \/ Back

SpecKin == InitKin /\ [][NextKin]_vars

\* C18: for every joint configuration J with each angle within its joint
\* range, forwardKinematics(inverseKinematics(forwardKinematics(J))) lies
\* within 0.01 m of forwardKinematics(J).
C18_RoundTrip ==
  kin.stage = "back" =>
    /\ ~isNaN(distanceTo(kin.reached, kin.pose))
    /\ distanceTo(kin.reached, kin.pose) <= tolerance

(***************************************************************************)
(* Claims about the steps of a physics tick (every step of SpecCoast is a  *)
(* physics tick of deltaTime now' - now).                                  *)
(***************************************************************************)
\* The position after a tick of deltaTime dt that starts at position p, with
\* the velocity vx left by the friction step, integrated along heading h.
integratedPosition(p, vx, h, dt) ==
  <<p[1] + TruncDiv(TruncDiv(vx * sinMilli(h), 1000) * dt, 1000),
    p[2],
    p[3] + TruncDiv(TruncDiv(vx * cosMilli(h), 1000) * dt, 1000)>>

\* C21: a tick runs watchdog, friction, heading integration, position
\* integration in this order: the heading grows by wz * deltaTime with the wz
\* left by the tick's friction step, and the position is integrated with the
\* vx left by the friction step along the heading produced by this same tick.
C21_StepOrder ==
  [][/\ store'.rotation =
          IF store'.velocity.wz # 0
          THEN store.rotation + TruncDiv(store'.velocity.wz * (now' - now), 1000)
          ELSE store.rotation
     /\ store'.position =
          IF store'.velocity.vx # 0
          THEN integratedPosition(store.position, store'.velocity.vx,
                                  store'.rotation, now' - now)
          ELSE store.position]_vars

\* What a tick does to a component that is zero after the watchdog and the
\* friction step, and to the height.
ZeroComponentsNoWrites ==
  /\ store'.velocity.vx = 0 => store'.position = store.position
  /\ store'.velocity.wz = 0 => store'.rotation = store.rotation
  /\ store'.position[2] = store.position[2]

C23_RateGate ==
  [][now' # now =>
       /\ now' - sensor.lastDistanceUpdate < 100 =>
            /\ sensor'.returned = store.distance
            /\ store' = store
            /\ sensor'.lastDistanceUpdate = sensor.lastDistanceUpdate
       /\ (store'.distance # store.distance
             \/ sensor'.lastDistanceUpdate # sensor.lastDistanceUpdate) =>
            /\ now' - sensor.lastDistanceUpdate >= 100
            /\ sensor'.lastDistanceUpdate = now'
       /\ now' - sensor.lastDistanceUpdate >= 100 =>
            sensor'.lastDistanceUpdate = now']_vars

\* A call 50 ms after a ray cast found an object at 1.2 m and left the stored
\* 5.0 m as it was.
C23_Witness ==
  /\ sensor.lastDistanceUpdate >= T0 + 100
  /\ now = sensor.lastDistanceUpdate + 50
  /\ ~sensor.updated
  /\ countedHits(sensor.intersects) # <<>>
  /\ countedHits(sensor.intersects)[1].distance = 1200
  /\ store.distance = 5000
  /\ sensor.returned = 5000

(***************************************************************************)
(* SpecFusion: scans fused into a map of 10 m, whose rays of up to 5 m end *)
(* inside the grid when they run diagonally and outside it otherwise.      *)
(***************************************************************************)
FusionMapSize == 10

FusionResolution == 1

FusionRays ==
  {[angle |-> a, distance |-> d] :
     a \in {0, 785, 3142}, d \in {1500, 4700, 4750, 5000}}

FusionScans ==
  {<<r>> : r \in FusionRays}
    \cup {q \in {<<r, g>> : r \in FusionRays, g \in FusionRays} :
            q[1].distance = 4700 /\ q[2].angle = 785}

FusionPositions == {<<0, 100, 0>>, <<2600, 100, 600>>}

InitFusion ==
  /\ store = setRobotType(InitialStore, "rover")
  /\ runs = NoRuns
  /\ now = T0
  /\ text = <<>>
  /\ commands = <<>>
  /\ fused = [count |-> 0, lidarScan |-> <<>>, robotPosition |-> <<0, 0, 0>>,
              gridSize |-> 0, resolution |-> 0]
  /\ ticks = NoTicks
  /\ cmdTime = NULL
  /\ sensor = NoSensor
  /\ kin = NoKin

NextFusion ==
  \E lidarScan \in FusionScans, robotPosition \in FusionPositions :
    FuseScan(lidarScan, robotPosition, FusionMapSize, FusionResolution)

SpecFusion == InitFusion /\ [][NextFusion]_vars

\* The in-grid terminal cell of a ray of the fusion recorded in f, if the ray
\* is shorter than 4.75 m.
terminalCells(f) ==
  {cellIndex(obstacleCell(f.lidarScan[k], f.robotPosition[1], f.robotPosition[3],
                          f.gridSize, f.resolution), f.gridSize) :
     k \in {j \in 1..Len(f.lidarScan) :
              /\ f.lidarScan[j].distance < 4750
              /\ inGrid(obstacleCell(f.lidarScan[j], f.robotPosition[1],
                                     f.robotPosition[3], f.gridSize, f.resolution),
                        f.gridSize)}}

\* The in-grid cells along the rays of the fusion recorded in f, before their
\* hit distance.
cellsAlong(f) ==
  UNION {freeCells(f.lidarScan[k], f.robotPosition[1], f.robotPosition[3],
                   f.gridSize, f.resolution) : k \in 1..Len(f.lidarScan)}

\* C24: after a fusion the Occupied cells are those that were Occupied and the
\* terminal cells, inside the grid, of the rays shorter than 4.75 m (a ray of
\* 4.75 m or more marks no cell Occupied); of the other cells, those along a
\* ray before its hit distance are Free, and the rest are as they were.  The
\* map has the cells of the grid and no others.
C24_FusionRule ==
  [][fused' # fused =>
       LET before == mapOrNew(store.occupancyMap, fused'.gridSize)
           after == store'.occupancyMap
           terminals == terminalCells(fused')
           along == cellsAlong(fused')
       IN  /\ Len(after) = fused'.gridSize * fused'.gridSize
           /\ \A i \in 1..Len(after) :
                after[i] = IF before[i] = 2 \/ i \in terminals THEN 2
                           ELSE IF i \in along THEN 1
                           ELSE before[i]]_vars

\* One fusion of two diagonal rays: the one of 4.7 m marked its terminal cell
\* Occupied, the one of 4.75 m or more ended inside the grid and marked its
\* terminal cell neither Occupied nor Free.
C24_Witness ==
  /\ fused.count >= 1
  /\ Len(fused.lidarScan) = 2
  /\ \E k \in 1..2 :
       LET hit == obstacleCell(fused.lidarScan[k], fused.robotPosition[1],
                               fused.robotPosition[3], fused.gridSize,
                               fused.resolution)
       IN  /\ fused.lidarScan[k].distance >= 4750
           /\ inGrid(hit, fused.gridSize)
           /\ store.occupancyMap[cellIndex(hit, fused.gridSize)] = 0
  /\ \E i \in terminalCells(fused) : store.occupancyMap[i] = 2
  /\ \E i \in cellsAlong(fused) : store.occupancyMap[i] = 1

(***************************************************************************)
(* Claims about several activations on the shared store.                   *)
(***************************************************************************)
\* A command of activation r is in flight: applied, its suspension not over.
InFlight(r) == runs[r].phase = "exec" /\ runs[r].wait \in {"timer", "frame"}

\* C25: at every moment at most one command is in flight on the shared robot
\* state, also when Run is clicked again while an earlier command sequence is
\* still executing.
C25_OneCommandInFlight ==
  \A r \in DOMAIN runs, q \in DOMAIN runs : (InFlight(r) /\ InFlight(q)) => r = q

(***************************************************************************)
(* SpecLight: the parser applied to texts of setLight calls with numeric   *)
(* and other arguments, on the rover.                                      *)
(***************************************************************************)
LightArguments ==
  {<<"2", "5", "5">>,
   <<"0">>,
   <<"1", ".", "5">>,
   <<"-", "1">>,
   <<"1", "6", "7", "7", "7", "2", "1", "5">>,
   <<"1", "6", "7", "7", "7", "2", "1", "6">>,
   <<"#", "0", "0", "f", "f", "0", "0">>,
   <<"#", "f", "f">>,
   <<"r", "e", "d">>,
   <<"b", "l", "u", "e">>}

LightTokens == {Tok("setLight", <<>>, a) : a \in LightArguments}

InitLight == InitWith(SeqsUpTo(LightTokens, MaxLen - 1), {"rover"})

NextLight == HandleRun(1)

SpecLight == InitLight /\ [][NextLight]_vars

\* The token is a decimal number: an optional sign, digits, and an optional
\* fraction of digits.
numberToken(tok) ==
  LET i == IF tok[1] \in {"-", "+"} THEN 2 ELSE 1
      n == DigitRun(tok, i)
  IN  /\ n > 0
      /\ \/ i + n = Len(tok) + 1
         \/ /\ i + n < Len(tok)
            /\ tok[i + n] = "."
            /\ i + n + 1 + DigitRun(tok, i + n + 1) = Len(tok) + 1

\* The integer part of a number token.
integerPart(tok) ==
  LET i == IF tok[1] \in {"-", "+"} THEN 2 ELSE 1
      ip == DigitsValue(tok, i, DigitRun(tok, i))
  IN  IF tok[1] = "-" THEN -ip ELSE ip

HexDigits == {HexChar(d) : d \in 0..15}

\* The number a sequence of hexadecimal digits encodes.
RECURSIVE hexValue(_)
hexValue(s) ==
  IF s = <<>> THEN 0
  ELSE hexValue(SubSeq(s, 1, Len(s) - 1)) * 16
         + (CHOOSE d \in 0..15 : HexChar(d) = s[Len(s)])

\* C26: the colour of a setLight call whose argument is a number n is "#" and
\* exactly six hexadecimal digits that encode the integer part of n; the
\* colour of a call with any other argument is the argument unchanged.
C26_NumericLight ==
  \A k \in 1..Len(commands) :
    LET tok == text[k].sarg
        color == commands[k].color
    IN  IF numberToken(tok)
        THEN /\ Len(color) = 7
             /\ color[1] = "#"
             /\ \A j \in 2..7 : color[j] \in HexDigits
             /\ hexValue(SubSeq(color, 2, 7)) = integerPart(tok)
        ELSE color = tok

(***************************************************************************)
(* SpecToggle: one Run click, and clicks on the robot type buttons at any  *)
(* moment.                                                                 *)
(***************************************************************************)
ToggleTokens ==
  {Tok("openGripper", <<>>, <<>>),
   Tok("closeGripper", <<>>, <<>>),
   Tok("move", <<1000, 0>>, <<>>),
   Tok("setLight", <<>>, <<"2", "5", "5">>)}

InitToggle == InitWith(SeqsUpTo(ToggleTokens, MaxLen - 1), {"arm", "rover"})

NextToggle ==
  \/ HandleRun(1)
  \/ SettleDone(1)
  \/ TimerFire(1)
  \/ \E type \in {"arm", "rover"} : ToggleRobotType(type)
  \/ AdvanceClock(ClockStep, ClickSteps * ClockStep)

SpecToggle == InitToggle /\ [][NextToggle]_vars

\* C29: whenever the Executor applies a command, the command's robot type is
\* the active robot type at that moment, also when the active type has been
\* switched while the command sequence is executing.
C29_ActiveRobotOnly ==
  [][\A r \in DOMAIN runs :
       \A k \in (Len(runs[r].applied) + 1)..Len(runs'[r].applied) :
         runs'[r].cmds[runs'[r].applied[k].idx].robotType = store.robotType]_vars


(***************************************************************************)
(* SpecPose: one Run click on the arm, on texts of moveJoint and           *)
(* moveToPose calls; the frames of the browser come PoseClockStep apart.   *)
(***************************************************************************)
PoseClockStep == 50

PoseSteps == 110

PoseTokens ==
  {Tok("moveJoint", <<4, 300>>, <<>>),
   Tok("moveJoint", <<4, 45>>, <<>>),
   Tok("moveToPose", <<500, 1000, 500>>, <<>>),
   Tok("moveToPose", <<0, 2250, 0>>, <<>>)}

InitPose == InitWith(SeqsUpTo(PoseTokens, MaxLen - 1), {"arm"})

NextPose ==
  \/ HandleRun(1)
  \/ SettleDone(1)
  \/ AnimateFrame(1)
  \/ PoseFrame(1)
  \/ ClearFire(1)
  \/ FramePasses(PoseClockStep, PoseSteps * PoseClockStep)

SpecPose == InitPose /\ [][NextPose]_vars

\* C27: after a MoveToPose command has completed, joint 4 (the gripper
\* rotation) has the angle it had immediately before the command.
C27_GripperRotationHeld ==
  \A r \in DOMAIN runs : \A k \in 1..Len(runs[r].poses) :
    runs[r].poses[k].after = runs[r].poses[k].before

\* C28: from the start of a MoveToPose motion until that motion completes,
\* trajectoryPath is non-null and isAnimating is true, also when the delayed
\* clear of a MoveToPose before it is still pending.
C28_TrajectoryCoversMotion ==
  \A r \in DOMAIN runs :
    (runs[r].phase = "exec" /\ runs[r].wait = "pose")
      => (store.trajectoryPath # NoPath /\ store.isAnimating)

(***************************************************************************)
(* SpecLive: one Run click, on the arm or the rover, where every timeout   *)
(* and every requestAnimationFrame callback runs in the frame in which it  *)
(* is due, and frames keep coming.  The clock of the model stops at        *)
(* LiveHorizon, which no text of the model needs: a command takes at most  *)
(* the duration of a pose animation and one frame per step.                *)
(***************************************************************************)
LiveTokens ==
  {Tok("moveJoint", <<0, 45>>, <<>>),
   Tok("closeGripper", <<>>, <<>>),
   Tok("moveToPose", <<500, 1000, 500>>, <<>>),
   Tok("move", <<1000, 0>>, <<>>)}

LiveHorizon ==
  SettleDelay + ClearDelay + PoseClockStep
    + MaxLen * (PoseDuration + (numSteps + 1) * PoseClockStep)

InitLive == InitWith(SeqsUpTo(LiveTokens, MaxLen - 1), {"arm", "rover"})

NextLive ==
  \/ HandleRun(1)
  \/ SettleDone(1)
  \/ TimerFire(1)
  \/ AnimateFrame(1)
  \/ PoseFrame(1)
  \/ ClearFire(1)
  \/ FramePasses(PoseClockStep, LiveHorizon)

\* The guards of the four callbacks of the activation: each is ENABLED of its
\* action, which changes runs whenever its guard holds.
SettleDoneEnabled ==
  runs[1].phase = "settle" /\ timerMayFire(runs[1].due, now)

TimerFireEnabled ==
  runs[1].phase = "exec" /\ runs[1].wait = "timer" /\ timerMayFire(runs[1].due, now)

AnimateFrameEnabled ==
  runs[1].phase = "exec" /\ runs[1].wait = "frame" /\ now > runs[1].anim.lastTime

PoseFrameEnabled ==
  runs[1].phase = "exec" /\ runs[1].wait = "pose" /\ now > runs[1].pose.lastTime

\* Weak fairness of every callback and of the passing of frames.  For the
\* four callbacks of the activation WF_vars(A) is written out as
\* []<>~ENABLED <<A>>_vars \/ []<><<A>>_vars, with the guard for ENABLED.
SpecLive ==
  /\ InitLive
  /\ [][NextLive]_vars
  /\ ([]<>~SettleDoneEnabled \/ []<><<SettleDone(1)>>_vars)
  /\ ([]<>~TimerFireEnabled \/ []<><<TimerFire(1)>>_vars)
  /\ ([]<>~AnimateFrameEnabled \/ []<><<AnimateFrame(1)>>_vars)
  /\ ([]<>~PoseFrameEnabled \/ []<><<PoseFrame(1)>>_vars)
  /\ WF_vars(ClearFire(1))
  /\ WF_vars(FramePasses(PoseClockStep, LiveHorizon))

\* The number of entries of the history h for command i.
TimesIn(h, i) == Cardinality({k \in DOMAIN h : h[k].idx = i})

\* Every command of the activation was applied or skipped, exactly once.
EachCommandOnce(run) ==
  \A i \in 1..Len(run.cmds) : TimesIn(run.applied, i) + TimesIn(run.skipped, i) = 1

\* C30: when every timer and every animation-frame callback eventually
\* fires and time advances, executeCommands eventually completes, having
\* applied or skipped each command of the sequence exactly once.
C30_ExecutorTerminates ==
  (runs[1].phase = "exec")
    ~> (runs[1].phase = "done" /\ EachCommandOnce(runs[1]))

C30_Witness ==
  /\ runs[1].phase = "done"
  /\ runs[1].rtype = "arm"
  /\ Len(runs[1].cmds) = MaxLen - 1
  /\ \E k \in DOMAIN runs[1].applied :
       runs[1].cmds[runs[1].applied[k].idx].type = "moveToPose"
  /\ Len(runs[1].skipped) = 1
  /\ EachCommandOnce(runs[1])

=============================================================================
